---- MODULE Spec2Model ----
(***************************************************************************)
(* Model of the identifier generator and of the slug retry protocol of the  *)
(* crawler server.                                                          *)
(*                                                                          *)
(* Time.  Date.now() is a millisecond count.  The model counts the same     *)
(* milliseconds from an origin that lies PreEpoch ms before the generator's *)
(* epoch (1609459200000 in the source), so the source's epoch is the model  *)
(* time `epoch' = PreEpoch, a reading below it is a clock set before        *)
(* 2021-01-01, and `timestamp - epoch' is the same number in both.  The     *)
(* initial lastTimestamp, -1n in the source, is below every reading of      *)
(* Date.now(); it is kept as -1, below every reading 0..MaxClock.           *)
(***************************************************************************)
EXTENDS Integers, Sequences, FiniteSets

(***************************************************************************)
(* Bounds of the model.                                                     *)
(***************************************************************************)
PreEpoch == 1
MaxClock == 2

(***************************************************************************)
(* BigInt arithmetic of the generator: <<, | and & as JavaScript computes   *)
(* them on arbitrary-precision two's-complement integers.                   *)
(***************************************************************************)
ShiftLeft(x, n) == x * (2 ^ n)

RECURSIVE BitOr(_, _)
BitOr(a, b) ==
  IF a = 0 THEN b
  ELSE IF b = 0 THEN a
  ELSE IF a = -1 \/ b = -1 THEN -1
  ELSE 2 * BitOr(a \div 2, b \div 2) + (IF a % 2 = 1 \/ b % 2 = 1 THEN 1 ELSE 0)

RECURSIVE BitAnd(_, _)
BitAnd(a, b) ==
  IF a = 0 \/ b = 0 THEN 0
  ELSE IF a = -1 THEN b
  ELSE IF b = -1 THEN a
  ELSE 2 * BitAnd(a \div 2, b \div 2) + (IF a % 2 = 1 /\ b % 2 = 1 THEN 1 ELSE 0)

(***************************************************************************)
(* BigInt.prototype.toString(): the decimal rendering, a '-' sign and then  *)
(* the digits of the magnitude, as a sequence of characters.                *)
(***************************************************************************)
DigitChars == <<"0", "1", "2", "3", "4", "5", "6", "7", "8", "9">>

RECURSIVE Digits(_)
Digits(n) ==
  IF n < 10 THEN <<DigitChars[n + 1]>>
  ELSE Append(Digits(n \div 10), DigitChars[(n % 10) + 1])

ToString(n) == IF n < 0 THEN <<"-">> \o Digits(0 - n) ELSE Digits(n)

(***************************************************************************)
(* Fields of SnowflakeIdGenerator.                                          *)
(***************************************************************************)
epoch == PreEpoch

datacenterIdBits == 5
workerIdBits == 5
sequenceBits == 12

maxDatacenterId == ShiftLeft(1, datacenterIdBits) - 1
maxWorkerId == ShiftLeft(1, workerIdBits) - 1
maxSequence == ShiftLeft(1, sequenceBits) - 1

workerIdShift == sequenceBits
datacenterIdShift == sequenceBits + workerIdBits
timestampLeftShift == sequenceBits + workerIdBits + datacenterIdBits

initialSequence == 0
initialLastTimestamp == 0 - 1

(***************************************************************************)
(* State.                                                                   *)
(*   Generators   the SnowflakeIdGenerator objects; each lives in its own   *)
(*                process and reads that process's clock.                   *)
(*   now[g]       the value Date.now() returns in g's process.              *)
(*   constructed  "no" before new SnowflakeIdGenerator(..), then "ok", or   *)
(*                "error" when the constructor threw; ctorArgs[g] are the   *)
(*                arguments it was given, ctorError[g] the message thrown.  *)
(*   pc[g]        "idle", or "spin" while a generate() call of g is inside  *)
(*                the loop of waitNextMillis.                               *)
(*   result[g]    outcome of the latest generate() call of g.               *)
(*   lastId[g], prevId[g]  the latest identifier g returned and the one     *)
(*                returned before it (<<>> when there is none).             *)
(*   maxBefore[g] the greatest identifier g returned before lastId[g].      *)
(*   issued       the identifiers returned so far, in order, with the       *)
(*                generator, the caller and the (timestamp, sequence) used. *)
(*   sites, cats  the rows of the tables crawl_site and categories.         *)
(*   op[p]        the service call that request p is running: its kind, its *)
(*                arguments, the await it is suspended at, its locals, the  *)
(*                existence checks it has made and its outcome.             *)
(*   started      the number of service calls started so far.               *)
(***************************************************************************)
VARIABLES now, constructed, ctorArgs, ctorError, datacenterId, workerId, sequence,
          lastTimestamp, pc, caller, result, lastId, prevId, maxBefore, issued,
          sites, cats, op, started

vars == <<now, constructed, ctorArgs, ctorError, datacenterId, workerId, sequence,
          lastTimestamp, pc, caller, result, lastId, prevId, maxBefore, issued,
          sites, cats, op, started>>

svcVars == <<sites, cats, op, started>>

Generators == {1, 2}
Callers == {"initializeCrawl", "crawlCategory"}
Clock == 0..MaxClock

NoResult == [status |-> "none", id |-> <<>>, error |-> ""]
NoMax == [any |-> FALSE, max |-> 0]

(***************************************************************************)
(* Reading an identifier back: the number a decimal string denotes and the  *)
(* bit fields of that number.                                               *)
(***************************************************************************)
DigitValue(c) ==
  CASE c = "0" -> 0 [] c = "1" -> 1 [] c = "2" -> 2 [] c = "3" -> 3 [] c = "4" -> 4
    [] c = "5" -> 5 [] c = "6" -> 6 [] c = "7" -> 7 [] c = "8" -> 8 [] c = "9" -> 9

\* The number denoted by the digits s[from..upto].
RECURSIVE ParseDigits(_, _, _)
ParseDigits(s, from, upto) ==
  IF upto < from THEN 0
  ELSE 10 * ParseDigits(s, from, upto - 1) + DigitValue(s[upto])

IdValue(s) ==
  IF s[1] = "-" THEN 0 - ParseDigits(s, 2, Len(s)) ELSE ParseDigits(s, 1, Len(s))

SequenceField(n) == n % (2 ^ 12)
WorkerField(n) == (n \div (2 ^ 12)) % (2 ^ 5)
DatacenterField(n) == (n \div (2 ^ 17)) % (2 ^ 5)
TimestampField(n) == n \div (2 ^ 22)

(***************************************************************************)
(* constructor(datacenterId, workerId)                                      *)
(***************************************************************************)
ConstructorErrorOffByOne(dc, w) ==
  IF dc < 0 \/ dc >= maxDatacenterId THEN "Datacenter ID must be 0 - 31"
  ELSE IF w < 0 \/ w >= maxWorkerId THEN "Worker ID must be 0 - 31"
  ELSE ""

ConstructorError(dc, w) ==
  IF dc < 0 \/ dc > maxDatacenterId THEN "Datacenter ID must be 0 - 31"
  ELSE IF w < 0 \/ w > maxWorkerId THEN "Worker ID must be 0 - 31"
  ELSE ""

Construct(g, dc, w) ==
  /\ constructed[g] = "no"
  /\ ctorArgs' = [ctorArgs EXCEPT ![g] = <<dc, w>>]
  /\ ctorError' = [ctorError EXCEPT ![g] = ConstructorError(dc, w)]
  /\ IF ConstructorError(dc, w) # ""
       THEN /\ constructed' = [constructed EXCEPT ![g] = "error"]
            /\ UNCHANGED <<datacenterId, workerId>>
       ELSE /\ constructed' = [constructed EXCEPT ![g] = "ok"]
            /\ datacenterId' = [datacenterId EXCEPT ![g] = dc]
            /\ workerId' = [workerId EXCEPT ![g] = w]
  /\ UNCHANGED <<now, sequence, lastTimestamp, pc, caller, result, lastId,
                 prevId, maxBefore, issued>>

(***************************************************************************)
(* generate()                                                               *)
(***************************************************************************)
NextSequenceSkips(seq) == BitAnd(seq + 2, maxSequence)

NextSequence(seq) == BitAnd(seq + 1, maxSequence)

AssembleIdWorkerShift(timestamp, dc, w, seq) ==
  BitOr(BitOr(BitOr(ShiftLeft(timestamp - epoch, timestampLeftShift),
                    ShiftLeft(dc, datacenterIdShift)),
              ShiftLeft(w, workerIdBits)),
        seq)

AssembleIdSameShift(timestamp, dc, w, seq) ==
  BitOr(BitOr(BitOr(ShiftLeft(timestamp - epoch, timestampLeftShift),
                    ShiftLeft(dc, workerIdShift)),
              ShiftLeft(w, workerIdShift)),
        seq)

AssembleId(timestamp, dc, w, seq) ==
  BitOr(BitOr(BitOr(ShiftLeft(timestamp - epoch, timestampLeftShift),
                    ShiftLeft(dc, datacenterIdShift)),
              ShiftLeft(w, workerIdShift)),
        seq)

ClockMovedBackwardsUnchecked(timestamp, last) == FALSE

ClockMovedBackwardsByTwo(timestamp, last) == timestamp < last - 1

ClockMovedBackwards(timestamp, last) == timestamp < last

WaitIsOverByTwo(ts, last) == ~(ts <= last + 1)

WaitIsOverSameMillis(ts, last) == ~(ts < last)

WaitIsOver(ts, last) == ~(ts <= last)

\* Lines 104-112: record the millisecond used and return the identifier.
ReturnId(g, timestamp, seq) ==
  LET id == ToString(AssembleId(timestamp, datacenterId[g], workerId[g], seq))
  IN /\ lastTimestamp' = [lastTimestamp EXCEPT ![g] = timestamp]
     /\ result' = [result EXCEPT ![g] = [status |-> "returned", id |-> id, error |-> ""]]
     /\ lastId' = [lastId EXCEPT ![g] = id]
     /\ prevId' = [prevId EXCEPT ![g] = lastId[g]]
     /\ maxBefore' = [maxBefore EXCEPT ![g] =
          IF lastId[g] = <<>> THEN maxBefore[g]
          ELSE [any |-> TRUE,
                max |-> IF maxBefore[g].any /\ maxBefore[g].max > IdValue(lastId[g])
                          THEN maxBefore[g].max ELSE IdValue(lastId[g])]]

GenerateResettingOnThrow(g, c) ==
  /\ constructed[g] = "ok"
  /\ pc[g] = "idle"
  /\ LET timestamp == now[g]
     IN IF ClockMovedBackwards(timestamp, lastTimestamp[g])
          THEN /\ result' = [result EXCEPT ![g] =
                     [status |-> "threw", id |-> <<>>, error |-> "Clock moved backwards"]]
               /\ sequence' = [sequence EXCEPT ![g] = 0]
               /\ UNCHANGED <<lastTimestamp, pc, caller, lastId, prevId, maxBefore>>
          ELSE IF timestamp = lastTimestamp[g]
            THEN /\ sequence' = [sequence EXCEPT ![g] = NextSequence(sequence[g])]
                 /\ IF NextSequence(sequence[g]) = 0
                      THEN /\ pc' = [pc EXCEPT ![g] = "spin"]
                           /\ caller' = [caller EXCEPT ![g] = c]
                           /\ result' = [result EXCEPT ![g] = NoResult]
                           /\ UNCHANGED <<lastTimestamp, lastId, prevId, maxBefore>>
                      ELSE /\ ReturnId(g, timestamp, NextSequence(sequence[g]))
                           /\ UNCHANGED <<pc, caller>>
            ELSE /\ sequence' = [sequence EXCEPT ![g] = 0]
                 /\ ReturnId(g, timestamp, 0)
                 /\ UNCHANGED <<pc, caller>>
  /\ UNCHANGED <<now, constructed, ctorArgs, ctorError, datacenterId, workerId>>

\* Lines 88-102: the call up to its return, its throw, or its entry into
\* the loop of waitNextMillis.
Generate(g, c) ==
  /\ constructed[g] = "ok"
  /\ pc[g] = "idle"
  /\ LET timestamp == now[g]
     IN IF ClockMovedBackwards(timestamp, lastTimestamp[g])
          THEN /\ result' = [result EXCEPT ![g] =
                     [status |-> "threw", id |-> <<>>, error |-> "Clock moved backwards"]]
               /\ UNCHANGED <<sequence, lastTimestamp, pc, caller, lastId, prevId,
                              maxBefore>>
          ELSE IF timestamp = lastTimestamp[g]
            THEN /\ sequence' = [sequence EXCEPT ![g] = NextSequence(sequence[g])]
                 /\ IF NextSequence(sequence[g]) = 0
                      THEN /\ pc' = [pc EXCEPT ![g] = "spin"]
                           /\ caller' = [caller EXCEPT ![g] = c]
                           /\ result' = [result EXCEPT ![g] = NoResult]
                           /\ UNCHANGED <<lastTimestamp, lastId, prevId, maxBefore>>
                      ELSE /\ ReturnId(g, timestamp, NextSequence(sequence[g]))
                           /\ UNCHANGED <<pc, caller>>
            ELSE /\ sequence' = [sequence EXCEPT ![g] = 0]
                 /\ ReturnId(g, timestamp, 0)
                 /\ UNCHANGED <<pc, caller>>
  /\ UNCHANGED <<now, constructed, ctorArgs, ctorError, datacenterId, workerId>>

\* Lines 119-125 and 104-112: an iteration of the loop of waitNextMillis that
\* reads a millisecond after lastTimestamp ends the loop and the call returns.
\* An iteration that reads an earlier or equal millisecond changes nothing.
WaitNextMillis(g) ==
  /\ pc[g] = "spin"
  /\ WaitIsOver(now[g], lastTimestamp[g])
  /\ pc' = [pc EXCEPT ![g] = "idle"]
  /\ ReturnId(g, now[g], sequence[g])
  /\ UNCHANGED <<now, constructed, ctorArgs, ctorError, datacenterId, workerId, sequence, caller>>

(***************************************************************************)
(* The clock of a process: it advances, and it may be set back.             *)
(***************************************************************************)
ClockAdvance(g) ==
  /\ now[g] < MaxClock
  /\ now' = [now EXCEPT ![g] = now[g] + 1]
  /\ UNCHANGED <<constructed, ctorArgs, ctorError, datacenterId, workerId, sequence,
                 lastTimestamp, pc, caller, result, lastId, prevId, maxBefore, issued>>

ClockRegress(g) ==
  /\ now[g] > 0
  /\ now' = [now EXCEPT ![g] = now[g] - 1]
  /\ UNCHANGED <<constructed, ctorArgs, ctorError, datacenterId, workerId, sequence,
                 lastTimestamp, pc, caller, result, lastId, prevId, maxBefore, issued>>

(***************************************************************************)
(* Text.  A title or a slug is a sequence of characters.                    *)
(***************************************************************************)
UpperChars == <<"A", "B", "C", "D", "E", "F", "G", "H", "I", "J", "K", "L", "M",
                "N", "O", "P", "Q", "R", "S", "T", "U", "V", "W", "X", "Y", "Z">>
LowerChars == <<"a", "b", "c", "d", "e", "f", "g", "h", "i", "j", "k", "l", "m",
                "n", "o", "p", "q", "r", "s", "t", "u", "v", "w", "x", "y", "z">>

Range(f) == {f[i] : i \in DOMAIN f}
IsSpace(c) == c = " "
IsAlnum(c) == c \in Range(UpperChars) \cup Range(LowerChars) \cup Range(DigitChars)
ToLower(c) ==
  IF c \in Range(UpperChars)
    THEN LowerChars[CHOOSE i \in DOMAIN UpperChars : UpperChars[i] = c]
    ELSE c

RECURSIVE TrimStart(_)
TrimStart(s) == IF s # <<>> /\ IsSpace(Head(s)) THEN TrimStart(Tail(s)) ELSE s

RECURSIVE TrimEnd(_)
TrimEnd(s) ==
  IF s # <<>> /\ IsSpace(s[Len(s)]) THEN TrimEnd(SubSeq(s, 1, Len(s) - 1)) ELSE s

\* String.prototype.trim()
Trim(s) == TrimEnd(TrimStart(s))

\* slugify(title, {lower, strict, trim, replacement: '-'}): the characters
\* that are neither letters, digits nor spaces are removed (a '-' counts as a
\* space), the ends are trimmed, each run of spaces becomes one '-', letters
\* become lowercase.
RECURSIVE Strict(_)
Strict(s) ==
  IF s = <<>> THEN <<>>
  ELSE (IF IsAlnum(Head(s)) \/ IsSpace(Head(s)) THEN <<Head(s)>>
        ELSE IF Head(s) = "-" THEN <<" ">>
        ELSE <<>>)
         \o Strict(Tail(s))

RECURSIVE Hyphenate(_)
Hyphenate(s) ==
  IF s = <<>> THEN <<>>
  ELSE IF IsSpace(Head(s)) THEN <<"-">> \o Hyphenate(TrimStart(s))
  ELSE <<ToLower(Head(s))>> \o Hyphenate(Tail(s))

SlugifyUntrimmed(title) == Hyphenate(Strict(title))

Slugify(title) == Hyphenate(Trim(Strict(title)))

\* Number.prototype.toString(36) of a non-negative integer.
Base36Chars == DigitChars \o LowerChars

RECURSIVE Base36(_)
Base36(n) ==
  IF n < 36 THEN <<Base36Chars[n + 1]>>
  ELSE Append(Base36(n \div 36), Base36Chars[(n % 36) + 1])

generateSlug(title, suffix) ==
  IF suffix # <<>> THEN Slugify(title) \o <<"-">> \o suffix ELSE Slugify(title)

\* generateUniqueSlug(title) when Date.now() reads t.
generateUniqueSlug(title, t) == generateSlug(title, Base36(t))

(***************************************************************************)
(* The store and the requests.                                              *)
(***************************************************************************)
Null == "NULL"

TitleAB == <<"A", " ", "b">>
TitleC == <<"C", "!">>
TitleBlank == <<" ">>
Titles == {TitleAB, TitleC}

LinkTypes == {"URL", "API"}
GoodLink == "https://example.com"

\* new URL(link) succeeds with protocol http: or https:
isValidUrl(link) == link \in {GoodLink, "http://example.org/api"}

isValidCrawlLink(link_type, link) ==
  IF link_type = "URL" THEN isValidUrl(link)
  ELSE IF link_type = "API" THEN isValidUrl(link)
  ELSE FALSE

NoData == [provided |-> {}, link_type |-> "", title |-> <<>>, crawl_link |-> "",
           title_selector |-> "", link_selector |-> ""]

IdleOp == [kind |-> "none", pc |-> "idle", data |-> NoData, siteId |-> <<>>,
           categoryId |-> <<>>, taskId |-> <<>>, title |-> <<>>, slug |-> <<>>,
           slugAttempts |-> 0, answer |-> FALSE, checks |-> <<>>, existing |-> {},
           outcome |-> "none", error |-> "", written |-> {},
           before |-> [sites |-> {}, cats |-> {}],
           pending |-> <<>>, batch |-> <<>>, skipped |-> <<>>, storeError |-> "",
           rejected |-> ""]

NoService ==
  /\ sites = {}
  /\ cats = {}
  /\ op = [p \in {1} |-> IdleOp]
  /\ started = 0

\* CrawlSiteRepository.findById, slugExists, slugExistsExcludingId
findById(id) == {r \in sites : r.id = id}
slugExists(slug) == Cardinality({r \in sites : r.slug = slug}) > 0
slugExistsExcludingId(slug, excludeId) ==
  Cardinality({r \in sites : r.slug = slug /\ r.id # excludeId}) > 0

\* CategoryRepository.findById, slugExistsForSite, slugExistsForSiteExcludingId
findCategoryById(id) == {c \in cats : c.id = id}
slugExistsForSite(siteId, slug) ==
  Cardinality({c \in cats : c.site_id = siteId /\ c.slug = slug}) > 0
slugExistsForSiteCountingOwn(siteId, slug, excludeCategoryId) ==
  Cardinality({c \in cats : c.site_id = siteId /\ c.slug = slug}) > 0

slugExistsForSiteExcludingId(siteId, slug, excludeCategoryId) ==
  Cardinality({c \in cats :
                 c.site_id = siteId /\ c.slug = slug /\ c.id # excludeCategoryId}) > 0

\* The existence check of the retry loop of each operation.
ExistenceCheck(o) ==
  IF o.kind = "initializeCrawl" THEN slugExists(o.slug)
  ELSE IF o.kind = "modifyCrawl" THEN slugExistsExcludingId(o.slug, o.siteId)
  ELSE IF o.kind = "crawlCategory" THEN slugExistsForSite(o.siteId, o.slug)
  ELSE slugExistsForSiteExcludingId(o.siteId, o.slug, o.categoryId)

maxSlugAttempts == 5

\* The condition of the while loop and of the throw that follows it.
ShouldRetry(exists, slugAttempts) == exists /\ slugAttempts < maxSlugAttempts

SlugExhaustedNever(slugAttempts) == FALSE

SlugExhaustedAtFour(slugAttempts) == slugAttempts >= maxSlugAttempts - 1

SlugExhausted(slugAttempts) == slugAttempts >= maxSlugAttempts

Fail(o, message) == [o EXCEPT !.pc = "done", !.outcome = "failed", !.error = message]

(***************************************************************************)
(* CrawlSiteService.  A request runs from one await to the next in one      *)
(* step; op[p].pc names the await it is suspended at:                       *)
(*   "find", "findCategory"  a findById query,                              *)
(*   "crawl"                 the puppeteer session,                         *)
(*   "check"                 the existence query of the retry loop,         *)
(*   "checked"               the answer of that query, not yet consumed,    *)
(*   "write"                 the INSERT or UPDATE,                          *)
(*   "fetch"                 the findById that follows the write.           *)
(* The service calls the singleton snowflakeGenerator, generator 1, and     *)
(* reads the clock of its process, now[1].                                  *)
(***************************************************************************)
MaxOps == 1

\* `Invalid ${data.link_type} format. Please provide a valid URL.`: the
\* template renders the link_type of the request as it was given.
InvalidFormat(link_type) ==
  "Invalid " \o link_type \o " format. Please provide a valid URL."

\* validateCreateCrawlData and validateModifyCrawlData: the same three checks.
ValidateCrawlData(d) ==
  IF "link_type" \notin d.provided \/ d.link_type \notin LinkTypes
    THEN "Invalid link_type. Must be either URL or API."
  ELSE IF "title" \notin d.provided \/ Len(Trim(d.title)) = 0
    THEN "Title is required and must be a non-empty string."
  ELSE IF Len(Trim(d.title)) > 255
    THEN "Title must not exceed 255 characters."
  ELSE IF "crawl_link" \notin d.provided \/ d.crawl_link = ""
    THEN "Crawl link is required and must be a non-empty string."
  ELSE ""

\* The argument { title: data.title } of the call in modifyCrawl.
TitleOnly(d) == [NoData EXCEPT !.provided = {"title"}, !.title = d.title]

\* A request as it enters the service; before is the store at that moment.
NewOp == [IdleOp EXCEPT !.before = [sites |-> sites, cats |-> cats]]

\* The requests the model admits: MaxOps, and at least one for each process
\* that serves requests concurrently.
RequestBudget ==
  IF Cardinality(DOMAIN op) > MaxOps THEN Cardinality(DOMAIN op) ELSE MaxOps

\* A process takes its next request.
Ready(p) ==
  /\ op[p].pc \in {"idle", "done"}
  /\ started < RequestBudget
  /\ started' = started + 1

GeneratorIdle ==
  UNCHANGED <<now, constructed, ctorArgs, ctorError, datacenterId, workerId, sequence,
              lastTimestamp, pc, caller, result, lastId, prevId, maxBefore, issued>>

\* Entry into the retry loop: the first candidate and the first query.
EnterLoop(o, title) ==
  [o EXCEPT !.title = title, !.slug = generateUniqueSlug(title, now[1]),
            !.slugAttempts = 0, !.pc = "check"]

\* initializeCrawl, lines 44-57: validation, the identifier, the first candidate.
InitializeCrawl(p, data) ==
  /\ Ready(p)
  /\ LET o == [NewOp EXCEPT !.kind = "initializeCrawl", !.data = data]
     IN IF ValidateCrawlData(data) # ""
          THEN /\ op' = [op EXCEPT ![p] = Fail(o, ValidateCrawlData(data))]
               /\ GeneratorIdle
          ELSE /\ Generate(1, "initializeCrawl")
               /\ UNCHANGED issued
               /\ op' = [op EXCEPT ![p] =
                    IF result'[1].status = "threw" THEN Fail(o, result'[1].error)
                    ELSE IF result'[1].status = "returned"
                      THEN EnterLoop([o EXCEPT !.taskId = result'[1].id], data.title)
                    ELSE [o EXCEPT !.pc = "generate"]]
  /\ UNCHANGED <<sites, cats>>

\* The record initializeCrawl hands to repository.create, lines 66-76.
NewSite(o) ==
  [id |-> o.taskId, link_type |-> o.data.link_type, title |-> Trim(o.data.title),
   crawl_link |-> o.data.crawl_link, slug |-> o.slug, status |-> "INIT",
   categories |-> Null, sub_categories |-> Null]

\* The record modifyCrawl hands to repository.update, lines 217-276.
ModifiedSiteKeepingStatus(o, existingTask) ==
  [id |-> o.siteId,
   link_type |-> IF "link_type" \in o.data.provided THEN o.data.link_type
                 ELSE existingTask.link_type,
   title |-> IF "title" \in o.data.provided THEN Trim(o.data.title)
             ELSE existingTask.title,
   crawl_link |-> IF "crawl_link" \in o.data.provided THEN o.data.crawl_link
                  ELSE existingTask.crawl_link,
   slug |-> IF "title" \in o.data.provided THEN o.slug ELSE existingTask.slug,
   status |-> existingTask.status, categories |-> existingTask.categories,
   sub_categories |-> Null]

ModifiedSite(o, existingTask) ==
  [id |-> o.siteId,
   link_type |-> IF "link_type" \in o.data.provided THEN o.data.link_type
                 ELSE existingTask.link_type,
   title |-> IF "title" \in o.data.provided THEN Trim(o.data.title)
             ELSE existingTask.title,
   crawl_link |-> IF "crawl_link" \in o.data.provided THEN o.data.crawl_link
                  ELSE existingTask.crawl_link,
   slug |-> IF "title" \in o.data.provided THEN o.slug ELSE existingTask.slug,
   status |-> "INIT", categories |-> Null, sub_categories |-> Null]

\* modifyCrawl from the merge to the call of repository.update, lines 253-290.
ModifyCrawlMerge(o) ==
  LET existingTask == CHOOSE r \in o.existing : TRUE
      updated == ModifiedSite(o, existingTask)
  IN IF ~isValidCrawlLink(updated.link_type, updated.crawl_link)
       THEN Fail(o, InvalidFormat(IF "link_type" \in o.data.provided
                                    THEN o.data.link_type ELSE "undefined"))
       ELSE [o EXCEPT !.written = {updated}, !.pc = "write"]

\* modifyCrawl, lines 207-213: the call and its findById query.
ModifyCrawl(p, siteId, data) ==
  /\ Ready(p)
  /\ op' = [op EXCEPT ![p] =
       [NewOp EXCEPT !.kind = "modifyCrawl", !.siteId = siteId, !.data = data,
                      !.pc = "find"]]
  /\ GeneratorIdle
  /\ UNCHANGED <<sites, cats>>

\* modifyCrawl, lines 211-239: the record found, and what follows up to the
\* next query.
ModifyCrawlFound(p) ==
  /\ op[p].kind = "modifyCrawl"
  /\ op[p].pc = "find"
  /\ LET o == [op[p] EXCEPT !.existing = findById(op[p].siteId)]
     IN op' = [op EXCEPT ![p] =
          IF o.existing = {} THEN Fail(o, "Crawl task not found.")
          ELSE IF "title" \in o.data.provided
            THEN IF ValidateCrawlData(TitleOnly(o.data)) # ""
                   THEN Fail(o, ValidateCrawlData(TitleOnly(o.data)))
                   ELSE EnterLoop(o, o.data.title)
          ELSE ModifyCrawlMerge(o)]
  /\ GeneratorIdle
  /\ UNCHANGED <<sites, cats, started>>

\* updateCategory, lines 651-657: the call and its site query.
UpdateCategory(p, siteId, categoryId, data) ==
  /\ Ready(p)
  /\ op' = [op EXCEPT ![p] =
       [NewOp EXCEPT !.kind = "updateCategory", !.siteId = siteId,
                      !.categoryId = categoryId, !.data = data, !.pc = "find"]]
  /\ GeneratorIdle
  /\ UNCHANGED <<sites, cats>>

\* updateCategory, lines 657-663: the site found, the category query issued.
UpdateCategoryFoundSite(p) ==
  /\ op[p].kind = "updateCategory"
  /\ op[p].pc = "find"
  /\ LET o == [op[p] EXCEPT !.existing = findById(op[p].siteId)]
     IN op' = [op EXCEPT ![p] =
          IF o.existing = {} THEN Fail(o, "Site not found")
          ELSE [o EXCEPT !.pc = "findCategory"]]
  /\ GeneratorIdle
  /\ UNCHANGED <<sites, cats, started>>

\* updateCategory, lines 663-684: the category found, the selectors checked,
\* the browser launched.
UpdateCategoryFoundCategory(p) ==
  /\ op[p].kind = "updateCategory"
  /\ op[p].pc = "findCategory"
  /\ LET o == op[p]
         category == findCategoryById(o.categoryId)
     IN op' = [op EXCEPT ![p] =
          IF category = {} THEN Fail(o, "Category not found")
          ELSE IF (CHOOSE c \in category : TRUE).site_id # o.siteId
            THEN Fail(o, "Category does not belong to this site")
          ELSE IF o.data.title_selector = "" THEN Fail(o, "title_selector is required")
          ELSE IF o.data.link_selector = "" THEN Fail(o, "link_selector is required")
          ELSE [o EXCEPT !.pc = "crawl"]]
  /\ GeneratorIdle
  /\ UNCHANGED <<sites, cats, started>>

(***************************************************************************)
(* The puppeteer session as the service sees it: error is the message with  *)
(* which puppeteer.launch, newPage, goto, $$ or evaluate rejects ("" if     *)
(* none does), elements the elements the title selector matches, each with  *)
(* its textContent and its href attribute, both sequences of characters.    *)
(***************************************************************************)
\* The texts the extraction loop keeps, in the order of the page: the text
\* trimmed, skipped when it is empty, when its lowercase contains a home
\* keyword, or when the href is empty, '#' or made of '/' only.  (The two
\* pictographic keywords, U+1F3E0 and U+2302, are characters no text of the
\* model has, and are not listed.)
RECURSIVE ValidTitles(_)
ValidTitles(elements) ==
  IF elements = <<>> THEN <<>>
  ELSE LET text == Trim(Head(elements).text)
           textLower == [i \in DOMAIN text |-> ToLower(text[i])]
           href == Head(elements).href
           homeKeywords ==
             {<<"h", "o", "m", "e">>,
              <<"h", "o", "m", "e", "p", "a", "g", "e">>,
              <<"h", "o", "m", "e", " ", "p", "a", "g", "e">>,
              <<"t", "r", "a", "n", "g", " ", "c", "h", "ủ">>,
              <<"t", "r", "a", "n", "g", "c", "h", "u">>,
              <<"t", "r", "a", "n", "g", "-", "c", "h", "u">>,
              <<"i", "n", "d", "e", "x">>}
           isHomeKeyword ==
             \E k \in homeKeywords : \E i \in 1..(Len(textLower) - Len(k) + 1) :
               SubSeq(textLower, i, i + Len(k) - 1) = k
           isRootPath ==
             \/ href = <<"#">>
             \/ \A i \in DOMAIN href : href[i] = "/"
       IN (IF text = <<>> \/ isHomeKeyword \/ isRootPath THEN <<>> ELSE <<text>>)
            \o ValidTitles(Tail(elements))

\* The message of the error the try block of the crawl ends with, "" if it
\* ends with titles.
CrawlError(session, title_selector) ==
  IF session.error # "" THEN session.error
  ELSE IF session.elements = <<>>
    THEN "No element found for selector: " \o title_selector
  ELSE IF ValidTitles(session.elements) = <<>>
    THEN "No valid category found - all elements are home page links or empty"
  ELSE ""

\* updateCategory, lines 681-757: the crawl ends with the first valid title
\* or with an error, rethrown as `Crawl failed: ${error.message}`; with a
\* title, the first candidate and the first query.
UpdateCategoryCrawled(p, session) ==
  /\ op[p].kind = "updateCategory"
  /\ op[p].pc = "crawl"
  /\ op' = [op EXCEPT ![p] =
       IF CrawlError(session, op[p].data.title_selector) # ""
         THEN Fail(op[p], "Crawl failed: "
                            \o CrawlError(session, op[p].data.title_selector))
         ELSE EnterLoop(op[p], Head(ValidTitles(session.elements)))]
  /\ GeneratorIdle
  /\ UNCHANGED <<sites, cats, started>>

\* The existence query of the retry loop runs on the store.
SlugCheck(p) ==
  /\ op[p].pc = "check"
  /\ op' = [op EXCEPT ![p] =
       [op[p] EXCEPT !.answer = ExistenceCheck(op[p]),
                     !.checks = Append(op[p].checks,
                                       [slug |-> op[p].slug,
                                        answer |-> ExistenceCheck(op[p])]),
                     !.pc = "checked"]]
  /\ GeneratorIdle
  /\ UNCHANGED <<sites, cats, started>>

\* Errors with which pool.execute rejects when the store cannot be reached.
StoreErrors == {"connect ECONNREFUSED 127.0.0.1:3306",
                "Connection lost: The server closed the connection."}

CheckErrorAsCollision(o, e) ==
  [o EXCEPT !.storeError = e, !.answer = TRUE,
            !.checks = Append(o.checks, [slug |-> o.slug, answer |-> TRUE]),
            !.pc = "checked"]

\* The await of the while condition rejects: no catch encloses the loop, so
\* the operation ends with the error of the store.
CheckError(o, e) == Fail([o EXCEPT !.storeError = e], e)

\* The existence query of the retry loop fails in the store.
SlugCheckFails(p, e) ==
  /\ op[p].pc = "check"
  /\ op' = [op EXCEPT ![p] = CheckError(op[p], e)]
  /\ GeneratorIdle
  /\ UNCHANGED <<sites, cats, started>>

\* The fields updateCategory hands to categoryRepository.update, lines 773-778.
CategoryUpdate(o) ==
  [title |-> o.title, slug |-> o.slug, title_selector |-> o.data.title_selector,
   link_selector |-> o.data.link_selector]

\* After the loop: the throw on exhaustion, or the way to the write.
AfterLoop(o) ==
  IF SlugExhausted(o.slugAttempts)
    THEN Fail(o, IF o.kind = "updateCategory" THEN "Failed to generate unique slug. Please try again."
                 ELSE "Failed to generate unique slug. Please try a different title.")
  ELSE IF o.kind = "initializeCrawl"
    THEN IF ~isValidCrawlLink(o.data.link_type, o.data.crawl_link)
           THEN Fail(o, InvalidFormat(o.data.link_type))
           ELSE [o EXCEPT !.written = {NewSite(o)}, !.pc = "write"]
  ELSE IF o.kind = "modifyCrawl" THEN ModifyCrawlMerge(o)
  ELSE [o EXCEPT !.written = {CategoryUpdate(o)}, !.pc = "write"]

\* The answer of the existence query reaches the loop: another candidate and
\* another query, or the end of the loop.
SlugContinue(p) ==
  /\ op[p].pc = "checked"
  /\ op[p].kind # "crawlCategory"
  /\ op' = [op EXCEPT ![p] =
       IF ShouldRetry(op[p].answer, op[p].slugAttempts)
         THEN [op[p] EXCEPT !.slug = generateUniqueSlug(op[p].title, now[1]),
                            !.slugAttempts = op[p].slugAttempts + 1,
                            !.pc = "check"]
         ELSE AfterLoop(op[p])]
  /\ GeneratorIdle
  /\ UNCHANGED <<sites, cats, started>>

\* A write the store refuses with ER_DUP_ENTRY; rejected records the key
\* that was duplicated.
Reject(o, key, message) == Fail([o EXCEPT !.rejected = key], message)

SiteKeyViolationPrimaryOnly(row) ==
  IF \E r \in sites : r.id = row.id THEN "id" ELSE ""

\* The keys of table crawl_site: id is the primary key, slug a unique key.
\* The result names the key a row would duplicate, "" if none.
SiteKeyViolation(row) ==
  IF \E r \in sites : r.id = row.id THEN "id"
  ELSE IF \E r \in sites : r.slug = row.slug THEN "slug"
  ELSE ""

\* CrawlSiteRepository.create: the INSERT; every ER_DUP_ENTRY is rethrown as
\* 'Slug already exists'.
CreateSite(p) ==
  /\ op[p].kind = "initializeCrawl"
  /\ op[p].pc = "write"
  /\ LET row == CHOOSE r \in op[p].written : TRUE
     IN IF SiteKeyViolation(row) # ""
          THEN /\ op' = [op EXCEPT ![p] =
                    Reject(op[p], SiteKeyViolation(row), "Slug already exists. Please use a different title.")]
               /\ UNCHANGED sites
          ELSE /\ sites' = sites \cup {row}
               /\ op' = [op EXCEPT ![p] = [op[p] EXCEPT !.pc = "fetch"]]
  /\ GeneratorIdle
  /\ UNCHANGED <<cats, started>>

\* CrawlSiteRepository.update: the UPDATE of the row with the given id.
UpdateSite(p) ==
  /\ op[p].kind = "modifyCrawl"
  /\ op[p].pc = "write"
  /\ LET row == CHOOSE r \in op[p].written : TRUE
     IN IF findById(row.id) # {} /\ \E r \in sites : r.id # row.id /\ r.slug = row.slug
          THEN /\ op' = [op EXCEPT ![p] = Reject(op[p], "slug", "Slug already exists. Please use a different title.")]
               /\ UNCHANGED sites
          ELSE /\ sites' = IF findById(row.id) = {} THEN sites
                           ELSE (sites \ findById(row.id)) \cup {row}
               /\ op' = [op EXCEPT ![p] = [op[p] EXCEPT !.pc = "fetch"]]
  /\ GeneratorIdle
  /\ UNCHANGED <<cats, started>>

\* The findById that follows the INSERT or UPDATE of a crawl_site row.
FetchSite(p) ==
  /\ op[p].kind \in {"initializeCrawl", "modifyCrawl"}
  /\ op[p].pc = "fetch"
  /\ LET id == (CHOOSE r \in op[p].written : TRUE).id
     IN op' = [op EXCEPT ![p] =
          IF findById(id) = {}
            THEN Fail(op[p], IF op[p].kind = "initializeCrawl"
                               THEN "Failed to retrieve created record"
                               ELSE "Failed to retrieve updated record")
            ELSE [op[p] EXCEPT !.pc = "done", !.outcome = "ok"]]
  /\ GeneratorIdle
  /\ UNCHANGED <<sites, cats, started>>

\* purgeCrawl, lines 334-336: the call and its findById query.
PurgeCrawl(p, siteId) ==
  /\ Ready(p)
  /\ op' = [op EXCEPT ![p] =
       [NewOp EXCEPT !.kind = "purgeCrawl", !.siteId = siteId, !.pc = "find"]]
  /\ GeneratorIdle
  /\ UNCHANGED <<sites, cats>>

PurgeCrawlFoundUnchecked(p) ==
  /\ op[p].kind = "purgeCrawl"
  /\ op[p].pc = "find"
  /\ op' = [op EXCEPT ![p] =
       [op[p] EXCEPT !.existing = findById(op[p].siteId), !.pc = "write"]]
  /\ GeneratorIdle
  /\ UNCHANGED <<sites, cats, started>>

\* purgeCrawl, lines 336-342: the record found or not.
PurgeCrawlFound(p) ==
  /\ op[p].kind = "purgeCrawl"
  /\ op[p].pc = "find"
  /\ LET o == [op[p] EXCEPT !.existing = findById(op[p].siteId)]
     IN op' = [op EXCEPT ![p] =
          IF o.existing = {} THEN Fail(o, "Crawl task not found.")
          ELSE [o EXCEPT !.pc = "write"]]
  /\ GeneratorIdle
  /\ UNCHANGED <<sites, cats, started>>

\* The rows of categories that DELETE FROM crawl_site WHERE id = ? leaves: the
\* foreign key site_id is declared ON DELETE CASCADE.
DeleteKeepingCategories(id) == cats

DeleteCascade(id) == {c \in cats : c.site_id # id}

\* CrawlSiteRepository.delete and the return of purgeCrawl.
DeleteSite(p) ==
  /\ op[p].kind = "purgeCrawl"
  /\ op[p].pc = "write"
  /\ sites' = sites \ findById(op[p].siteId)
  /\ cats' = DeleteCascade(op[p].siteId)
  /\ op' = [op EXCEPT ![p] = [op[p] EXCEPT !.pc = "done", !.outcome = "ok"]]
  /\ GeneratorIdle
  /\ UNCHANGED started

\* updateCrawlStatus, lines 141-142: the call and its findById query.
UpdateCrawlStatus(p, siteId, status) ==
  /\ Ready(p)
  /\ op' = [op EXCEPT ![p] =
       [NewOp EXCEPT !.kind = "updateCrawlStatus", !.siteId = siteId,
                     !.written = {[status |-> status]}, !.pc = "find"]]
  /\ GeneratorIdle
  /\ UNCHANGED <<sites, cats>>

\* updateCrawlStatus, lines 142-148: the record found or not.
UpdateCrawlStatusFound(p) ==
  /\ op[p].kind = "updateCrawlStatus"
  /\ op[p].pc = "find"
  /\ LET o == [op[p] EXCEPT !.existing = findById(op[p].siteId)]
     IN op' = [op EXCEPT ![p] =
          IF o.existing = {} THEN Fail(o, "Crawl task not found.")
          ELSE [o EXCEPT !.pc = "write"]]
  /\ GeneratorIdle
  /\ UNCHANGED <<sites, cats, started>>

\* CrawlSiteRepository.updateStatus called on its own: the UPDATE is the
\* first await.
UpdateStatusCall(p, siteId, status) ==
  /\ Ready(p)
  /\ op' = [op EXCEPT ![p] =
       [NewOp EXCEPT !.kind = "updateCrawlStatus", !.siteId = siteId,
                     !.written = {[status |-> status]}, !.pc = "write"]]
  /\ GeneratorIdle
  /\ UNCHANGED <<sites, cats>>

\* CrawlSiteRepository.updateStatus: UPDATE crawl_site SET status = ? WHERE
\* id = ?, and the return.
UpdateStatus(p) ==
  /\ op[p].kind = "updateCrawlStatus"
  /\ op[p].pc = "write"
  /\ sites' = {IF r.id = op[p].siteId
                 THEN [r EXCEPT !.status = (CHOOSE w \in op[p].written : TRUE).status]
                 ELSE r : r \in sites}
  /\ op' = [op EXCEPT ![p] = [op[p] EXCEPT !.pc = "done", !.outcome = "ok"]]
  /\ GeneratorIdle
  /\ UNCHANGED <<cats, started>>

\* JSON.stringify of the values of the model: null, a non-negative integer,
\* an array of such values.
RECURSIVE JsonStringify(_)
JsonStringify(value) ==
  LET RECURSIVE Join(_, _)
      Join(parts, separator) ==
        IF parts = <<>> THEN ""
        ELSE IF Len(parts) = 1 THEN Head(parts)
        ELSE Head(parts) \o separator \o Join(Tail(parts), separator)
  IN IF value.type = "null" THEN "null"
     ELSE IF value.type = "number" THEN Join(ToString(value.number), "")
     ELSE "[" \o Join([i \in DOMAIN value.items |-> JsonStringify(value.items[i])], ",")
              \o "]"

\* updateCategories, lines 157-162: the call and its findById query.
UpdateCategories(p, siteId, categories, subCategories) ==
  /\ Ready(p)
  /\ op' = [op EXCEPT ![p] =
       [NewOp EXCEPT !.kind = "updateCategories", !.siteId = siteId,
                     !.written = {[categories |-> categories,
                                   sub_categories |-> subCategories]},
                     !.pc = "find"]]
  /\ GeneratorIdle
  /\ UNCHANGED <<sites, cats>>

\* updateCategories, lines 162-171: the record found or not; found, the two
\* values are rendered for the UPDATE.
UpdateCategoriesFound(p) ==
  /\ op[p].kind = "updateCategories"
  /\ op[p].pc = "find"
  /\ LET o == [op[p] EXCEPT !.existing = findById(op[p].siteId)]
         \* value ? JSON.stringify(value) : null
         Json(value) ==
           IF value.type = "null" \/ (value.type = "number" /\ value.number = 0)
             THEN Null
             ELSE JsonStringify(value)
     IN op' = [op EXCEPT ![p] =
          IF o.existing = {} THEN Fail(o, "Crawl task not found.")
          ELSE [o EXCEPT !.written = {[categories |-> Json(w.categories),
                                       sub_categories |-> Json(w.sub_categories)] :
                                        w \in o.written},
                         !.pc = "write"]]
  /\ GeneratorIdle
  /\ UNCHANGED <<sites, cats, started>>

\* CrawlSiteRepository.updateCategories: UPDATE crawl_site SET categories = ?,
\* sub_categories = ? WHERE id = ?, and the return.
UpdateCategoriesRow(p) ==
  /\ op[p].kind = "updateCategories"
  /\ op[p].pc = "write"
  /\ LET w == CHOOSE r \in op[p].written : TRUE
     IN sites' = {IF r.id = op[p].siteId
                    THEN [r EXCEPT !.categories = w.categories,
                                   !.sub_categories = w.sub_categories]
                    ELSE r : r \in sites}
  /\ op' = [op EXCEPT ![p] = [op[p] EXCEPT !.pc = "done", !.outcome = "ok"]]
  /\ GeneratorIdle
  /\ UNCHANGED <<cats, started>>

\* CategoryRepository.update: the UPDATE; (site_id, slug) is a unique key.
UpdateCategoryRow(p) ==
  /\ op[p].kind = "updateCategory"
  /\ op[p].pc = "write"
  /\ LET fields == CHOOSE r \in op[p].written : TRUE
         old == findCategoryById(op[p].categoryId)
     IN IF \E c \in old : \E d \in cats :
             d.id # c.id /\ d.site_id = c.site_id /\ d.slug = fields.slug
          THEN /\ op' = [op EXCEPT ![p] = Reject(op[p], "slug", "Category slug already exists for this site. Please try again.")]
               /\ UNCHANGED cats
          ELSE /\ cats' = (cats \ old) \cup
                            {[c EXCEPT !.title = fields.title, !.slug = fields.slug,
                                       !.title_selector = fields.title_selector,
                                       !.link_selector = fields.link_selector] : c \in old}
               /\ op' = [op EXCEPT ![p] = [op[p] EXCEPT !.pc = "fetch"]]
  /\ GeneratorIdle
  /\ UNCHANGED <<sites, started>>

\* The findById that follows the UPDATE or the INSERT of one category.
FetchCategory(p) ==
  /\ op[p].kind \in {"updateCategory", "createCategory"}
  /\ op[p].pc = "fetch"
  /\ op' = [op EXCEPT ![p] =
       IF findCategoryById(op[p].categoryId) = {}
         THEN Fail(op[p], IF op[p].kind = "updateCategory"
                            THEN "Failed to retrieve updated category"
                            ELSE "Failed to retrieve created category")
         ELSE [op[p] EXCEPT !.pc = "done", !.outcome = "ok"]]
  /\ GeneratorIdle
  /\ UNCHANGED <<sites, cats, started>>

(***************************************************************************)
(* crawlCategory: one resolution per crawled title, in the order of the     *)
(* page; pending holds the titles from the current one on, batch the        *)
(* categories to create, skipped the titles given up with a warning.        *)
(***************************************************************************)
\* crawlCategory, lines 462-471: the call and its site query.
CrawlCategory(p, siteId, data) ==
  /\ Ready(p)
  /\ op' = [op EXCEPT ![p] =
       [NewOp EXCEPT !.kind = "crawlCategory", !.siteId = siteId, !.data = data,
                     !.pc = "find"]]
  /\ GeneratorIdle
  /\ UNCHANGED <<sites, cats>>

\* crawlCategory, lines 472-490: the site found, the selectors checked, the
\* browser launched.
CrawlCategoryFoundSite(p) ==
  /\ op[p].kind = "crawlCategory"
  /\ op[p].pc = "find"
  /\ LET o == [op[p] EXCEPT !.existing = findById(op[p].siteId)]
     IN op' = [op EXCEPT ![p] =
          IF o.existing = {} THEN Fail(o, "Site not found")
          ELSE IF o.data.title_selector = "" THEN Fail(o, "title_selector is required")
          ELSE IF o.data.link_selector = "" THEN Fail(o, "link_selector is required")
          ELSE [o EXCEPT !.pc = "crawl"]]
  /\ GeneratorIdle
  /\ UNCHANGED <<sites, cats, started>>

\* The resolution of the first pending title begins: lines 576-586.
StartTitle(o) ==
  [EnterLoop(o, Head(o.pending)) EXCEPT !.checks = <<>>, !.answer = FALSE]

\* The for loop moves past the current title: to the next title, or, after the
\* last one, to the throw of line 613 or the batch insert of line 617.
NextTitle(o) ==
  LET rest == [o EXCEPT !.pending = Tail(o.pending)]
  IN IF rest.pending # <<>> THEN StartTitle(rest)
     ELSE IF rest.batch = <<>> THEN Fail(rest, "Failed to generate slugs for any category. Please try again.")
     ELSE [rest EXCEPT !.written = Range(rest.batch), !.pc = "write"]

\* crawlCategory, lines 488-586: the crawl ends with the valid titles of the
\* page or with an error, rethrown as `Crawl failed: ${error.message}`; with
\* titles, the first candidate and the first query.
CrawlCategoryCrawled(p, session) ==
  /\ op[p].kind = "crawlCategory"
  /\ op[p].pc = "crawl"
  /\ op' = [op EXCEPT ![p] =
       IF CrawlError(session, op[p].data.title_selector) # ""
         THEN Fail(op[p], "Crawl failed: "
                            \o CrawlError(session, op[p].data.title_selector))
         ELSE StartTitle([op[p] EXCEPT !.pending = ValidTitles(session.elements)])]
  /\ GeneratorIdle
  /\ UNCHANGED <<sites, cats, started>>

\* The category crawlCategory adds to its batch, lines 601-608.
NewCategory(o, categoryId) ==
  [id |-> categoryId, site_id |-> o.siteId, title |-> o.title, slug |-> o.slug,
   title_selector |-> o.data.title_selector, link_selector |-> o.data.link_selector]

\* crawlCategory, lines 584-609: the answer of the existence query reaches
\* the loop.  Another candidate and another query; or the title is given up
\* with console.warn and continue; or an identifier is generated and the
\* category joins the batch.
CrawlCategoryContinue(p) ==
  /\ op[p].kind = "crawlCategory"
  /\ op[p].pc = "checked"
  /\ IF ShouldRetry(op[p].answer, op[p].slugAttempts)
       THEN /\ op' = [op EXCEPT ![p] =
                 [op[p] EXCEPT !.slug = generateUniqueSlug(op[p].title, now[1]),
                               !.slugAttempts = op[p].slugAttempts + 1,
                               !.pc = "check"]]
            /\ GeneratorIdle
       ELSE IF SlugExhausted(op[p].slugAttempts)
         THEN /\ op' = [op EXCEPT ![p] =
                   NextTitle([op[p] EXCEPT !.skipped = Append(op[p].skipped, op[p].title)])]
              /\ GeneratorIdle
         ELSE /\ Generate(1, "crawlCategory")
              /\ UNCHANGED issued
              /\ op' = [op EXCEPT ![p] =
                   IF result'[1].status = "threw" THEN Fail(op[p], result'[1].error)
                   ELSE IF result'[1].status = "returned"
                     THEN NextTitle([op[p] EXCEPT !.batch =
                            Append(op[p].batch, NewCategory(op[p], result'[1].id))])
                   ELSE [op[p] EXCEPT !.pc = "generate"]]
  /\ UNCHANGED <<sites, cats, started>>

\* The keys of table categories: id is the primary key, (site_id, slug) a
\* unique key and site_id a foreign key to crawl_site.  The store takes the
\* rows of an INSERT one by one, in the order of the statement, and refuses
\* the statement at the first row that fails; a row is tested against the
\* table and the rows before it.  The result names the key that row fails
\* on, "" if every row is accepted.
BatchKeyViolation(rows) ==
  LET RowViolation(i) ==
        IF \/ \E c \in cats : c.id = rows[i].id
           \/ \E j \in 1..(i - 1) : rows[j].id = rows[i].id
          THEN "id"
        ELSE IF \/ \E c \in cats :
                     c.site_id = rows[i].site_id /\ c.slug = rows[i].slug
                \/ \E j \in 1..(i - 1) :
                     rows[j].site_id = rows[i].site_id /\ rows[j].slug = rows[i].slug
          THEN "slug"
        ELSE IF findById(rows[i].site_id) = {} THEN "site_id"
        ELSE ""
      failing == {i \in 1..Len(rows) : RowViolation(i) # ""}
  IN IF failing = {} THEN ""
     ELSE RowViolation(CHOOSE i \in failing : \A j \in failing : i <= j)

\* CategoryRepository.createBatch: one INSERT of all rows, which the store
\* applies whole or not at all.  ER_DUP_ENTRY is rethrown as 'One or more
\* category slugs already exist', any other error as it is.
CreateBatch(p) ==
  /\ op[p].kind = "crawlCategory"
  /\ op[p].pc = "write"
  /\ LET rows == op[p].batch
     IN IF BatchKeyViolation(rows) \in {"id", "slug"}
          THEN /\ op' = [op EXCEPT ![p] =
                    Reject(op[p], BatchKeyViolation(rows), "One or more category slugs already exist for this site. Please try again.")]
               /\ UNCHANGED cats
          ELSE IF BatchKeyViolation(rows) = "site_id"
            THEN /\ op' = [op EXCEPT ![p] = Fail(op[p], "Cannot add or update a child row: a foreign key constraint fails")]
                 /\ UNCHANGED cats
            ELSE /\ cats' = cats \cup Range(rows)
                 /\ op' = [op EXCEPT ![p] = [op[p] EXCEPT !.pc = "fetch"]]
  /\ GeneratorIdle
  /\ UNCHANGED <<sites, started>>

(***************************************************************************)
(* The methods of CategoryRepository that no service calls: create, delete  *)
(* and deleteCategoriesBySiteId, called on the repository itself.  Each     *)
(* runs to its first await, the statement, in the step of the call.         *)
(***************************************************************************)
\* CategoryRepository.create, lines 450-463: the call up to the INSERT.
CreateCategory(p, category) ==
  /\ Ready(p)
  /\ op' = [op EXCEPT ![p] =
       [NewOp EXCEPT !.kind = "createCategory", !.siteId = category.site_id,
                     !.categoryId = category.id, !.written = {category},
                     !.pc = "write"]]
  /\ GeneratorIdle
  /\ UNCHANGED <<sites, cats>>

\* CategoryRepository.create: the INSERT of one row; id is the primary key,
\* (site_id, slug) a unique key and site_id a foreign key.  ER_DUP_ENTRY is
\* rethrown as 'Category slug already exists', any other error as it is.
InsertCategory(p) ==
  /\ op[p].kind = "createCategory"
  /\ op[p].pc = "write"
  /\ LET row == CHOOSE r \in op[p].written : TRUE
     IN IF BatchKeyViolation(<<row>>) \in {"id", "slug"}
          THEN /\ op' = [op EXCEPT ![p] =
                    Reject(op[p], BatchKeyViolation(<<row>>), "Category slug already exists for this site. Please try again.")]
               /\ UNCHANGED cats
          ELSE IF BatchKeyViolation(<<row>>) = "site_id"
            THEN /\ op' = [op EXCEPT ![p] = Fail(op[p], "Cannot add or update a child row: a foreign key constraint fails")]
                 /\ UNCHANGED cats
            ELSE /\ cats' = cats \cup {row}
                 /\ op' = [op EXCEPT ![p] = [op[p] EXCEPT !.pc = "fetch"]]
  /\ GeneratorIdle
  /\ UNCHANGED <<sites, started>>

\* CategoryRepository.delete, lines 612-615: the call up to the DELETE.
DeleteCategory(p, id) ==
  /\ Ready(p)
  /\ op' = [op EXCEPT ![p] =
       [NewOp EXCEPT !.kind = "deleteCategory", !.categoryId = id, !.pc = "write"]]
  /\ GeneratorIdle
  /\ UNCHANGED <<sites, cats>>

\* CategoryRepository.deleteCategoriesBySiteId, lines 602-605: the call up to
\* the DELETE.
DeleteCategoriesBySiteId(p, siteId) ==
  /\ Ready(p)
  /\ op' = [op EXCEPT ![p] =
       [NewOp EXCEPT !.kind = "deleteCategoriesBySiteId", !.siteId = siteId,
                     !.pc = "write"]]
  /\ GeneratorIdle
  /\ UNCHANGED <<sites, cats>>

\* DELETE FROM categories WHERE id = ?, or WHERE site_id = ?, and the return.
DeleteCategoryRows(p) ==
  /\ op[p].kind \in {"deleteCategory", "deleteCategoriesBySiteId"}
  /\ op[p].pc = "write"
  /\ cats' = IF op[p].kind = "deleteCategory"
               THEN cats \ findCategoryById(op[p].categoryId)
               ELSE {c \in cats : c.site_id # op[p].siteId}
  /\ op' = [op EXCEPT ![p] = [op[p] EXCEPT !.pc = "done", !.outcome = "ok"]]
  /\ GeneratorIdle
  /\ UNCHANGED <<sites, started>>

\* The SELECT ... WHERE id IN (...) that follows the batch insert; the rows
\* it finds are the categories of the response.
FetchBatch(p) ==
  /\ op[p].kind = "crawlCategory"
  /\ op[p].pc = "fetch"
  /\ op' = [op EXCEPT ![p] =
       [op[p] EXCEPT !.pc = "done", !.outcome = "ok",
                     !.written = {c \in cats : \E i \in 1..Len(op[p].batch) :
                                                 c.id = op[p].batch[i].id}]]
  /\ GeneratorIdle
  /\ UNCHANGED <<sites, cats, started>>

(***************************************************************************)
(* The service on a store that earlier requests have filled.  A stored      *)
(* site is what initializeCrawl wrote at clock reading t for the title      *)
(* "A b" on the server with worker id w (this server, before a restart, or  *)
(* a second server on the same database); a stored category is what         *)
(* crawlCategory wrote for that site.                                       *)
(***************************************************************************)
\* The sites created at even readings have been crawled since: status DONE
\* and both JSON columns filled by updateCrawlStatus and updateCategories.
StoredSite(t, w) ==
  [id |-> ToString(AssembleId(t, 1, w, 0)), link_type |-> "URL",
   title |-> Trim(TitleAB), crawl_link |-> GoodLink,
   slug |-> generateUniqueSlug(TitleAB, t),
   status |-> IF t % 2 = 0 THEN "DONE" ELSE "INIT",
   categories |-> IF t % 2 = 0 THEN "[1]" ELSE Null,
   sub_categories |-> IF t % 2 = 0 THEN "[1]" ELSE Null]

StoredCategory(siteId, t, n) ==
  [id |-> ToString(AssembleId(t, 1, 1, n)), site_id |-> siteId, title |-> TitleAB,
   slug |-> generateUniqueSlug(TitleAB, t), title_selector |-> ".nav a",
   link_selector |-> ".nav a"]

SiteIds == {StoredSite(t, 2).id : t \in 0..1}
CategoryIds == {StoredCategory(StoredSite(0, 2).id, t, t + 1).id : t \in 0..1}

CreateInputs ==
  {[NoData EXCEPT !.provided = {"link_type", "title", "crawl_link"},
                  !.link_type = lt, !.title = ti, !.crawl_link = li] :
     lt \in {"URL", "FTP"}, ti \in Titles \cup {TitleBlank}, li \in {GoodLink, "example"}}

ModifyInputs ==
  {[NoData EXCEPT !.provided = {"title"}, !.title = TitleC],
   [NoData EXCEPT !.provided = {"link_type"}, !.link_type = "API"],
   [NoData EXCEPT !.provided = {"link_type"}, !.link_type = "FTP"],
   [NoData EXCEPT !.provided = {"crawl_link"}, !.crawl_link = "example"],
   [NoData EXCEPT !.provided = {"link_type", "title", "crawl_link"},
                  !.link_type = "API", !.title = TitleC, !.crawl_link = GoodLink]}

\* A page whose matched elements carry the given texts, each a link to a
\* category page.
PageOf(texts) ==
  [error |-> "",
   elements |-> [i \in DOMAIN texts |-> [text |-> texts[i], href |-> <<"/", "c">>]]]

\* The sessions of the model: pages with no element, with one and two
\* category links, with the same title twice, with nothing but a home link,
\* with a home link and a link to the root before a category link, and the
\* sessions in which puppeteer.launch or page.goto rejects.
Sessions ==
  {PageOf(texts) : texts \in {<<>>, <<TitleAB>>, <<TitleC>>, <<TitleAB, TitleC>>,
                               <<TitleAB, TitleAB>>, <<<<"H", "o", "m", "e">>>>}}
    \cup {[error |-> "",
           elements |-> <<[text |-> <<" ", "H", "o", "m", "e", "p", "a", "g", "e">>,
                           href |-> <<"/", "c">>],
                          [text |-> TitleC, href |-> <<"/">>],
                          [text |-> TitleBlank, href |-> <<"/", "c">>],
                          [text |-> TitleAB \o <<" ">>, href |-> <<"/", "c">>]>>]}
    \cup {[error |-> e, elements |-> <<>>] :
            e \in {"Failed to launch the browser process!",
                   "net::ERR_NAME_NOT_RESOLVED at https://example.com"}}

SelectorInputs ==
  {[NoData EXCEPT !.provided = {"title_selector", "link_selector"},
                  !.title_selector = ts, !.link_selector = ".nav a"] :
     ts \in {".nav a", ""}}

\* The server after start-up: the module-level snowflakeGenerator is
\* constructed with the ids 1 and 1 of the environment defaults.
ServerStarted ==
  /\ now[2] = 0
  /\ constructed = [g \in Generators |-> IF g = 1 THEN "ok" ELSE "no"]
  /\ ctorArgs = [g \in Generators |-> IF g = 1 THEN <<1, 1>> ELSE <<>>]
  /\ ctorError = [g \in Generators |-> ""]
  /\ datacenterId = [g \in Generators |-> IF g = 1 THEN 1 ELSE 0]
  /\ workerId = [g \in Generators |-> IF g = 1 THEN 1 ELSE 0]
  /\ sequence = [g \in Generators |-> initialSequence]
  /\ lastTimestamp = [g \in Generators |-> initialLastTimestamp]
  /\ pc = [g \in Generators |-> "idle"]
  /\ caller = [g \in Generators |-> "none"]
  /\ result = [g \in Generators |-> NoResult]
  /\ lastId = [g \in Generators |-> <<>>]
  /\ prevId = [g \in Generators |-> <<>>]
  /\ maxBefore = [g \in Generators |-> NoMax]

InitSlug ==
  /\ now \in [Generators -> Clock]
  /\ ServerStarted
  /\ issued = <<>>
  /\ \E k \in 0..MaxClock : \E w \in {1, 2} :
       /\ sites = {StoredSite(t, w) : t \in 0..(k - 1)}
       /\ \E n \in 0..MaxClock :
            cats = IF k = 0 THEN {}
                   ELSE {StoredCategory(StoredSite(0, w).id, t, t + 1) : t \in 0..(n - 1)}
  /\ op = [p \in {1} |-> IdleOp]
  /\ started = 0

\* The clock of the server process moves on between two steps of a request.
ServiceClockAdvance == ClockAdvance(1) /\ UNCHANGED svcVars

NextSlug ==
  \/ \E p \in DOMAIN op : \E data \in CreateInputs : InitializeCrawl(p, data)
  \/ \E p \in DOMAIN op : \E siteId \in SiteIds : \E data \in ModifyInputs :
       ModifyCrawl(p, siteId, data)
  \/ \E p \in DOMAIN op : ModifyCrawlFound(p)
  \/ \E p \in DOMAIN op : \E siteId \in SiteIds : \E categoryId \in CategoryIds :
       \E data \in SelectorInputs : UpdateCategory(p, siteId, categoryId, data)
  \/ \E p \in DOMAIN op : UpdateCategoryFoundSite(p)
  \/ \E p \in DOMAIN op : UpdateCategoryFoundCategory(p)
  \/ \E p \in DOMAIN op : \E session \in Sessions : UpdateCategoryCrawled(p, session)
  \/ \E p \in DOMAIN op : SlugCheck(p)
  \/ \E p \in DOMAIN op : \E e \in StoreErrors : SlugCheckFails(p, e)
  \/ \E p \in DOMAIN op : SlugContinue(p)
  \/ \E p \in DOMAIN op : CreateSite(p)
  \/ \E p \in DOMAIN op : UpdateSite(p)
  \/ \E p \in DOMAIN op : FetchSite(p)
  \/ \E p \in DOMAIN op : UpdateCategoryRow(p)
  \/ \E p \in DOMAIN op : FetchCategory(p)
  \/ ServiceClockAdvance

SpecSlug == InitSlug /\ [][NextSlug]_vars

(***************************************************************************)
(* crawlCategory on the same stores.                                        *)
(***************************************************************************)
NextCrawl ==
  \/ \E p \in DOMAIN op : \E siteId \in SiteIds : \E data \in SelectorInputs :
       CrawlCategory(p, siteId, data)
  \/ \E p \in DOMAIN op : CrawlCategoryFoundSite(p)
  \/ \E p \in DOMAIN op : \E session \in Sessions : CrawlCategoryCrawled(p, session)
  \/ \E p \in DOMAIN op : SlugCheck(p)
  \/ \E p \in DOMAIN op : \E e \in StoreErrors : SlugCheckFails(p, e)
  \/ \E p \in DOMAIN op : CrawlCategoryContinue(p)
  \/ \E p \in DOMAIN op : CreateBatch(p)
  \/ \E p \in DOMAIN op : FetchBatch(p)
  \/ ServiceClockAdvance

SpecCrawl == InitSlug /\ [][NextCrawl]_vars

(***************************************************************************)
(* Two requests served concurrently: the steps of the two interleave at     *)
(* every await.  The store holds one site with two categories, written by   *)
(* this server (datacenter 1, worker 1) at reading 0 before it was          *)
(* restarted; the inputs are those with which two requests derive the same  *)
(* candidate.                                                                *)
(***************************************************************************)
RaceSite == StoredSite(0, 1)

RaceCreate ==
  [NoData EXCEPT !.provided = {"link_type", "title", "crawl_link"},
                 !.link_type = "URL", !.title = TitleAB, !.crawl_link = GoodLink]

RaceModify == [NoData EXCEPT !.provided = {"link_type"}, !.link_type = "API"]

RaceModifyLink == [NoData EXCEPT !.provided = {"crawl_link"}, !.crawl_link = "http://example.org/api"]

RaceSelectors ==
  [NoData EXCEPT !.provided = {"title_selector", "link_selector"},
                 !.title_selector = ".nav a", !.link_selector = ".nav a"]

InitRace ==
  /\ now \in [Generators -> Clock]
  /\ ServerStarted
  /\ issued = <<>>
  /\ sites = {RaceSite}
  /\ cats = {StoredCategory(RaceSite.id, t, t + 1) : t \in 0..1}
  /\ op = [p \in {1, 2} |-> IdleOp]
  /\ started = 0

NextRace ==
  \/ \E p \in DOMAIN op : InitializeCrawl(p, RaceCreate)
  \/ \E p \in DOMAIN op : ModifyCrawl(p, RaceSite.id, RaceModify)
  \/ \E p \in DOMAIN op : ModifyCrawlFound(p)
  \/ \E p \in DOMAIN op : \E categoryId \in CategoryIds :
       UpdateCategory(p, RaceSite.id, categoryId, RaceSelectors)
  \/ \E p \in DOMAIN op : UpdateCategoryFoundSite(p)
  \/ \E p \in DOMAIN op : UpdateCategoryFoundCategory(p)
  \/ \E p \in DOMAIN op : UpdateCategoryCrawled(p, PageOf(<<TitleAB>>))
  \/ \E p \in DOMAIN op : CrawlCategory(p, RaceSite.id, RaceSelectors)
  \/ \E p \in DOMAIN op : CrawlCategoryFoundSite(p)
  \/ \E p \in DOMAIN op : CrawlCategoryCrawled(p, PageOf(<<TitleAB>>))
  \/ \E p \in DOMAIN op : SlugCheck(p)
  \/ \E p \in DOMAIN op : SlugContinue(p)
  \/ \E p \in DOMAIN op : CrawlCategoryContinue(p)
  \/ \E p \in DOMAIN op : CreateSite(p)
  \/ \E p \in DOMAIN op : UpdateSite(p)
  \/ \E p \in DOMAIN op : FetchSite(p)
  \/ \E p \in DOMAIN op : UpdateCategoryRow(p)
  \/ \E p \in DOMAIN op : FetchCategory(p)
  \/ \E p \in DOMAIN op : CreateBatch(p)
  \/ \E p \in DOMAIN op : FetchBatch(p)
  \/ ServiceClockAdvance

SpecRace == InitRace /\ [][NextRace]_vars

(***************************************************************************)
(* Two requests served concurrently, purgeCrawl among them, on the store    *)
(* of InitRace.  AbsentSite is an id no record ever has.                    *)
(***************************************************************************)
AbsentSite == StoredSite(1, 2).id

PurgeIds == {RaceSite.id, AbsentSite}

\* Arguments of updateCategories: null, the number 0, the arrays [] and
\* [1,[2]].
JsonValues ==
  {[type |-> "null"], [type |-> "number", number |-> 0],
   [type |-> "array", items |-> <<>>],
   [type |-> "array",
    items |-> <<[type |-> "number", number |-> 1],
                [type |-> "array", items |-> <<[type |-> "number", number |-> 2]>>]>>]}

\* Arguments of CategoryRepository.create: a category of either site, with a
\* new id and a new slug or with the id or the slug of a stored category.
RepositoryCategories ==
  {[id |-> id, site_id |-> siteId, title |-> TitleC, slug |-> slug,
    title_selector |-> ".a", link_selector |-> ".b"] :
     id \in {<<"7", "7">>, StoredCategory(RaceSite.id, 0, 1).id},
     siteId \in PurgeIds,
     slug \in {<<"n">>, StoredCategory(RaceSite.id, 0, 1).slug}}

NextPurge ==
  \/ \E p \in DOMAIN op : \E siteId \in PurgeIds : PurgeCrawl(p, siteId)
  \/ \E p \in DOMAIN op : PurgeCrawlFound(p)
  \/ \E p \in DOMAIN op : DeleteSite(p)
  \/ \E p \in DOMAIN op : InitializeCrawl(p, RaceCreate)
  \/ \E p \in DOMAIN op : \E siteId \in PurgeIds :
       \E data \in {RaceModify, RaceModifyLink} : ModifyCrawl(p, siteId, data)
  \/ \E p \in DOMAIN op : ModifyCrawlFound(p)
  \/ \E p \in DOMAIN op :
       UpdateCategory(p, RaceSite.id, StoredCategory(RaceSite.id, 0, 1).id, RaceSelectors)
  \/ \E p \in DOMAIN op : UpdateCategoryFoundSite(p)
  \/ \E p \in DOMAIN op : UpdateCategoryFoundCategory(p)
  \/ \E p \in DOMAIN op : UpdateCategoryCrawled(p, PageOf(<<TitleC>>))
  \/ \E p \in DOMAIN op : CrawlCategory(p, RaceSite.id, RaceSelectors)
  \/ \E p \in DOMAIN op : CrawlCategoryFoundSite(p)
  \/ \E p \in DOMAIN op : \E texts \in {<<TitleC>>, <<TitleC, TitleC>>} :
       CrawlCategoryCrawled(p, PageOf(texts))
  \/ \E p \in DOMAIN op : SlugCheck(p)
  \/ \E p \in DOMAIN op : SlugContinue(p)
  \/ \E p \in DOMAIN op : CrawlCategoryContinue(p)
  \/ \E p \in DOMAIN op : CreateSite(p)
  \/ \E p \in DOMAIN op : UpdateSite(p)
  \/ \E p \in DOMAIN op : FetchSite(p)
  \/ \E p \in DOMAIN op : UpdateCategoryRow(p)
  \/ \E p \in DOMAIN op : FetchCategory(p)
  \/ \E p \in DOMAIN op : CreateBatch(p)
  \/ \E p \in DOMAIN op : FetchBatch(p)
  \/ \E p \in DOMAIN op : \E siteId \in PurgeIds : \E status \in {"RUNNING", "ERROR"} :
       UpdateCrawlStatus(p, siteId, status)
  \/ \E p \in DOMAIN op : UpdateCrawlStatusFound(p)
  \/ \E p \in DOMAIN op : \E siteId \in PurgeIds : UpdateStatusCall(p, siteId, "ERROR")
  \/ \E p \in DOMAIN op : UpdateStatus(p)
  \/ \E p \in DOMAIN op : \E siteId \in PurgeIds : \E value \in JsonValues :
       UpdateCategories(p, siteId, value, [type |-> "null"])
  \/ \E p \in DOMAIN op : UpdateCategoriesFound(p)
  \/ \E p \in DOMAIN op : UpdateCategoriesRow(p)
  \/ \E p \in DOMAIN op : \E category \in RepositoryCategories : CreateCategory(p, category)
  \/ \E p \in DOMAIN op : InsertCategory(p)
  \/ \E p \in DOMAIN op : DeleteCategory(p, StoredCategory(RaceSite.id, 0, 1).id)
  \/ \E p \in DOMAIN op : \E siteId \in PurgeIds : DeleteCategoriesBySiteId(p, siteId)
  \/ \E p \in DOMAIN op : DeleteCategoryRows(p)
  \/ ServiceClockAdvance

SpecPurge == InitRace /\ [][NextPurge]_vars

(***************************************************************************)
(* generateUniqueSlug alone: a title and a reading of Date.now() are drawn, *)
(* and one call derives the candidate.                                      *)
(***************************************************************************)
ExampleSite == <<"E", "x", "a", "m", "p", "l", "e", " ", "S", "i", "t", "e">>

TextTitles ==
  {ExampleSite, TitleAB, TitleC, TitleBlank,
   <<" ", "A", "-", "-", "b", " ">>, <<"!", "?">>, <<"a", "_", "B">>,
   <<"9", " ", " ", "z">>, <<"-", "a", "!", " ", "0">>}

Readings == {0, 9, 10, 35, 36, 1295, 1296, 46656, 2000000000}

InitText ==
  /\ now \in [Generators -> Readings]
  /\ now[2] = 0
  /\ ServerStarted
  /\ issued = <<>>
  /\ sites = {}
  /\ cats = {}
  /\ \E title \in TextTitles :
       op = [p \in {1} |-> [IdleOp EXCEPT !.kind = "generateUniqueSlug",
                                            !.title = title]]
  /\ started = 0

GenerateUniqueSlug(p) ==
  /\ Ready(p)
  /\ op[p].kind = "generateUniqueSlug"
  /\ op' = [op EXCEPT ![p] =
              [op[p] EXCEPT !.slug = generateUniqueSlug(op[p].title, now[1]),
                            !.pc = "done", !.outcome = "ok"]]
  /\ GeneratorIdle
  /\ UNCHANGED <<sites, cats>>

NextText == \E p \in DOMAIN op : GenerateUniqueSlug(p)

SpecText == InitText /\ [][NextText]_vars

(***************************************************************************)
(* One generator and its callers: the singleton snowflakeGenerator of a     *)
(* server process, from construction on, with no bound on the number of     *)
(* calls.  The history `issued' is not kept here.                           *)
(***************************************************************************)
GenPairs == {<<1, 1>>, <<0 - 1, 1>>, <<1, 32>>}

InitGen ==
  /\ now \in [Generators -> Clock]
  /\ now[2] = 0
  /\ constructed = [g \in Generators |-> "no"]
  /\ ctorArgs = [g \in Generators |-> <<>>]
  /\ ctorError = [g \in Generators |-> ""]
  /\ datacenterId = [g \in Generators |-> 0]
  /\ workerId = [g \in Generators |-> 0]
  /\ sequence = [g \in Generators |-> initialSequence]
  /\ lastTimestamp = [g \in Generators |-> initialLastTimestamp]
  /\ pc = [g \in Generators |-> "idle"]
  /\ caller = [g \in Generators |-> "initializeCrawl"]
  /\ result = [g \in Generators |-> NoResult]
  /\ lastId = [g \in Generators |-> <<>>]
  /\ prevId = [g \in Generators |-> <<>>]
  /\ maxBefore = [g \in Generators |-> NoMax]
  /\ issued = <<>>
  /\ NoService

GenGenerate == Generate(1, "initializeCrawl") /\ UNCHANGED issued /\ UNCHANGED svcVars

NextGen ==
  \/ (\E p \in GenPairs : Construct(1, p[1], p[2])) /\ UNCHANGED svcVars
  \/ GenGenerate
  \/ WaitNextMillis(1) /\ UNCHANGED issued /\ UNCHANGED svcVars
  \/ ClockAdvance(1) /\ UNCHANGED svcVars
  \/ ClockRegress(1) /\ UNCHANGED svcVars

SpecGen == InitGen /\ [][NextGen]_vars

(***************************************************************************)
(* The history of returned identifiers, kept by the specifications that     *)
(* bound the number of calls.                                               *)
(***************************************************************************)
Record(g, c) ==
  issued' = IF result'[g].status = "returned"
              THEN Append(issued, [gen |-> g, caller |-> c, id |-> lastId'[g],
                                   timestamp |-> lastTimestamp'[g],
                                   sequence |-> sequence'[g]])
              ELSE issued

(***************************************************************************)
(* Construction with every pair of ids around the valid range, followed by  *)
(* at most MaxCtorCalls calls of generate().  Fewer than 4096 calls are     *)
(* made, so no call enters waitNextMillis.                                  *)
(***************************************************************************)
CtorMargin == 2
MaxCtorCalls == 2
CtorInputs == (0 - CtorMargin)..(31 + CtorMargin)

NextCtor ==
  \/ /\ \E dc \in CtorInputs, w \in CtorInputs : Construct(1, dc, w)
     /\ UNCHANGED svcVars
  \/ /\ Len(issued) < MaxCtorCalls
     /\ Generate(1, "initializeCrawl")
     /\ Record(1, "initializeCrawl")
     /\ UNCHANGED svcVars
  \/ ClockAdvance(1) /\ UNCHANGED svcVars

SpecCtor == InitGen /\ [][NextCtor]_vars

(***************************************************************************)
(* One generator called by several callers of its process.  generate() is   *)
(* synchronous: a call runs from its first line to its return or throw      *)
(* before any other caller runs, so the callers interleave call by call.    *)
(* At most MaxIssued identifiers are returned, so no call enters            *)
(* waitNextMillis.                                                          *)
(***************************************************************************)
MaxIssued == 5

NextCallers ==
  \/ /\ \E p \in GenPairs : Construct(1, p[1], p[2])
     /\ UNCHANGED svcVars
  \/ /\ \E c \in Callers :
          /\ Len(issued) < MaxIssued
          /\ Generate(1, c)
          /\ Record(1, c)
     /\ UNCHANGED svcVars
  \/ ClockAdvance(1) /\ UNCHANGED svcVars
  \/ ClockRegress(1) /\ UNCHANGED svcVars

SpecCallers == InitGen /\ [][NextCallers]_vars

(***************************************************************************)
(* Two generators, each in its own process with its own clock; at most      *)
(* MaxFleetIssued identifiers are returned in all.                          *)
(***************************************************************************)
MaxFleetIssued == 3
FleetPairs == {<<1, 1>>, <<1, 2>>, <<2, 1>>}

InitFleet ==
  /\ now \in [Generators -> Clock]
  /\ constructed = [g \in Generators |-> "no"]
  /\ ctorArgs = [g \in Generators |-> <<>>]
  /\ ctorError = [g \in Generators |-> ""]
  /\ datacenterId = [g \in Generators |-> 0]
  /\ workerId = [g \in Generators |-> 0]
  /\ sequence = [g \in Generators |-> initialSequence]
  /\ lastTimestamp = [g \in Generators |-> initialLastTimestamp]
  /\ pc = [g \in Generators |-> "idle"]
  /\ caller = [g \in Generators |-> "initializeCrawl"]
  /\ result = [g \in Generators |-> NoResult]
  /\ lastId = [g \in Generators |-> <<>>]
  /\ prevId = [g \in Generators |-> <<>>]
  /\ maxBefore = [g \in Generators |-> NoMax]
  /\ issued = <<>>
  /\ NoService

NextFleet ==
  \/ /\ \E g \in Generators, p \in FleetPairs : Construct(g, p[1], p[2])
     /\ UNCHANGED svcVars
  \/ /\ \E g \in Generators :
          /\ Len(issued) < MaxFleetIssued
          /\ Generate(g, "initializeCrawl")
          /\ Record(g, "initializeCrawl")
     /\ UNCHANGED svcVars
  \/ (\E g \in Generators : ClockAdvance(g)) /\ UNCHANGED svcVars
  \/ (\E g \in Generators : ClockRegress(g)) /\ UNCHANGED svcVars

SpecFleet == InitFleet /\ [][NextFleet]_vars

(***************************************************************************)
(* The generator late in a busy millisecond: 4095 identifiers have been     *)
(* issued in the millisecond the clock reads, the last with sequence 4094.  *)
(* At most MaxLiveCalls further identifiers are returned.  The loop of      *)
(* waitNextMillis reads the clock again and again without pause, so it      *)
(* does read each millisecond the clock shows: its exit is strongly fair.   *)
(***************************************************************************)
MaxLiveCalls == 3

InitLive ==
  /\ now \in [Generators -> Clock]
  /\ now[2] = 0
  /\ constructed = [g \in Generators |-> IF g = 1 THEN "ok" ELSE "no"]
  /\ ctorArgs = [g \in Generators |-> IF g = 1 THEN <<1, 1>> ELSE <<>>]
  /\ ctorError = [g \in Generators |-> ""]
  /\ datacenterId = [g \in Generators |-> IF g = 1 THEN 1 ELSE 0]
  /\ workerId = [g \in Generators |-> IF g = 1 THEN 1 ELSE 0]
  /\ sequence = [g \in Generators |-> IF g = 1 THEN maxSequence - 1 ELSE initialSequence]
  /\ lastTimestamp = [g \in Generators |-> IF g = 1 THEN now[1] ELSE initialLastTimestamp]
  /\ pc = [g \in Generators |-> "idle"]
  /\ caller = [g \in Generators |-> "initializeCrawl"]
  /\ result = [g \in Generators |->
                IF g = 1
                  THEN [status |-> "returned",
                        id |-> ToString(AssembleId(now[1], 1, 1, maxSequence - 1)),
                        error |-> ""]
                  ELSE NoResult]
  /\ lastId = [g \in Generators |->
                IF g = 1 THEN ToString(AssembleId(now[1], 1, 1, maxSequence - 1)) ELSE <<>>]
  /\ prevId = [g \in Generators |-> <<>>]
  /\ maxBefore = [g \in Generators |-> NoMax]
  /\ issued = <<>>
  /\ NoService

LiveWait == WaitNextMillis(1) /\ Record(1, caller[1]) /\ UNCHANGED svcVars

NextLive ==
  \/ /\ \E c \in Callers :
          /\ Len(issued) < MaxLiveCalls
          /\ Generate(1, c)
          /\ Record(1, c)
     /\ UNCHANGED svcVars
  \/ LiveWait
  \/ ClockAdvance(1) /\ UNCHANGED svcVars
  \/ ClockRegress(1) /\ UNCHANGED svcVars

SpecLive == InitLive /\ [][NextLive]_vars /\ SF_vars(LiveWait)

(***************************************************************************)
(* Claims about one generator, checked under SpecGen.                       *)
(***************************************************************************)
Returned(g) == lastId[g] # <<>>
Last(g) == IdValue(lastId[g])
Prev(g) == IdValue(prevId[g])

\* C1: every identifier a generator returns is numerically strictly greater
\* than every identifier it returned before.  It holds for every behaviour of
\* the clock, so in particular when the clock never reads lower than before.
C1_StrictlyIncreasing ==
  \A g \in Generators :
    Returned(g) /\ maxBefore[g].any => Last(g) > maxBefore[g].max

C1_Witness ==
  /\ result[1].status = "returned"
  /\ maxBefore[1].any
  /\ prevId[1] # <<>>
  /\ TimestampField(Last(1)) > TimestampField(Prev(1))

\* C3: a generate() call that samples a clock reading lower than
\* lastTimestamp throws 'Clock moved backwards' and returns no identifier.
C3_RegressionThrows ==
  [][GenGenerate /\ now[1] < lastTimestamp[1]
       => /\ result'[1] = [status |-> "threw", id |-> <<>>,
                           error |-> "Clock moved backwards"]
          /\ lastId'[1] = lastId[1]
          /\ prevId'[1] = prevId[1]]_vars

C3_Witness ==
  /\ result[1].status = "threw"
  /\ now[1] < lastTimestamp[1]
  /\ Returned(1)

\* C5: a returned identifier is (now - epoch) * 2^22 + datacenterId * 2^17 +
\* workerId * 2^12 + sequence, with now the millisecond the call recorded as
\* lastTimestamp; bits 12..16 are the workerId and bits 17..21 the
\* datacenterId of the constructor.  At epoch + 10 ms with ids 1, 1 and
\* sequence 0 the fields are 0, 1, 1 and 10.
C5_Example == IdValue(ToString(AssembleId(epoch + 10, 1, 1, 0)))

C5_Layout ==
  /\ \A g \in Generators :
       Returned(g) /\ pc[g] = "idle" =>
         /\ Last(g) = (lastTimestamp[g] - epoch) * (2 ^ 22) + datacenterId[g] * (2 ^ 17)
                        + workerId[g] * (2 ^ 12) + sequence[g]
         /\ WorkerField(Last(g)) = workerId[g]
         /\ DatacenterField(Last(g)) = datacenterId[g]
  /\ SequenceField(C5_Example) = 0
  /\ WorkerField(C5_Example) = 1
  /\ DatacenterField(C5_Example) = 1
  /\ TimestampField(C5_Example) = 10

C5_Witness ==
  /\ result[1].status = "returned"
  /\ datacenterId[1] = 3
  /\ workerId[1] = 31
  /\ sequence[1] = 1
  /\ lastTimestamp[1] > epoch

\* C6: of two identifiers returned by consecutive successful calls that carry
\* the same timestamp field, the later has the sequence field of the earlier
\* plus 1 and the same datacenter and worker fields.
C6_SameMillisecond ==
  \A g \in Generators :
    Returned(g) /\ prevId[g] # <<>>
      /\ TimestampField(Last(g)) = TimestampField(Prev(g)) =>
        /\ SequenceField(Last(g)) = SequenceField(Prev(g)) + 1
        /\ DatacenterField(Last(g)) = DatacenterField(Prev(g))
        /\ WorkerField(Last(g)) = WorkerField(Prev(g))

C6_Witness ==
  /\ result[1].status = "returned"
  /\ prevId[1] # <<>>
  /\ TimestampField(Last(1)) = TimestampField(Prev(1))
  /\ SequenceField(Last(1)) = 3

\* C7: after an identifier with sequence field 4095, a call made in the same
\* millisecond is held in waitNextMillis, no identifier being returned
\* meanwhile, and the identifier it returns has a strictly greater timestamp
\* field and sequence 0; the sequence never exceeds 4095.
C7_SequenceExhaustion ==
  \A g \in Generators :
    /\ sequence[g] \in 0..4095
    /\ Returned(g) /\ pc[g] = "idle" => SequenceField(Last(g)) = sequence[g]
    /\ pc[g] = "spin" =>
         /\ SequenceField(Last(g)) = 4095
         /\ TimestampField(Last(g)) = lastTimestamp[g] - epoch
         /\ result[g].status = "none"
    /\ Returned(g) /\ prevId[g] # <<>> /\ SequenceField(Prev(g)) = 4095 =>
         /\ TimestampField(Last(g)) > TimestampField(Prev(g))
         /\ SequenceField(Last(g)) = 0

C7_Witness ==
  /\ result[1].status = "returned"
  /\ prevId[1] # <<>>
  /\ SequenceField(Prev(1)) = 4095
  /\ TimestampField(Last(1)) = TimestampField(Prev(1)) + 1
  /\ SequenceField(Last(1)) = 0

\* C9: every identifier returned is the decimal rendering of a non-negative
\* integer below 2^64 (it has no sign and at most 64 binary digits).
RECURSIVE BitLength(_)
BitLength(n) == IF n = 0 THEN 0 ELSE 1 + BitLength(n \div 2)

C9_NonNegative64 ==
  \A g \in Generators :
    Returned(g) =>
      /\ lastId[g][1] # "-"
      /\ Last(g) >= 0
      /\ BitLength(Last(g)) <= 64

(***************************************************************************)
(* Claims about the history of returned identifiers, checked under          *)
(* SpecCallers and SpecFleet, and about construction, under SpecCtor.       *)
(***************************************************************************)
Positions == 1..Len(issued)

\* C2: for each generator and every behaviour of its clock, regressions
\* included, no two calls that return use the same (timestamp, sequence) pair
\* and no identifier is returned twice, whichever callers made the calls and
\* in whatever order.
C2_NoPairTwice ==
  \A i \in Positions, j \in Positions :
    i < j /\ issued[i].gen = issued[j].gen =>
      /\ <<issued[i].timestamp, issued[i].sequence>>
           # <<issued[j].timestamp, issued[j].sequence>>
      /\ issued[i].id # issued[j].id

C2_Witness ==
  /\ Len(issued) = 4
  /\ \A i \in Positions : issued[i].gen = 1
  /\ issued[1].caller # issued[2].caller
  /\ issued[1].timestamp = issued[2].timestamp
  /\ issued[3].timestamp > issued[2].timestamp
  /\ result[1].status = "threw"

\* C4: two generators constructed with different (datacenterId, workerId)
\* pairs never return the same identifier, whatever their clocks read.
C4_DistinctNodes ==
  \A i \in Positions, j \in Positions :
    /\ issued[i].gen # issued[j].gen
    /\ <<datacenterId[issued[i].gen], workerId[issued[i].gen]>>
         # <<datacenterId[issued[j].gen], workerId[issued[j].gen]>>
    => issued[i].id # issued[j].id

C4_Witness ==
  \E i \in Positions, j \in Positions :
    /\ issued[i].gen = 1
    /\ issued[j].gen = 2
    /\ <<datacenterId[1], workerId[1]>> = <<1, 2>>
    /\ <<datacenterId[2], workerId[2]>> = <<2, 1>>
    /\ issued[i].timestamp = issued[j].timestamp
    /\ issued[i].sequence = issued[j].sequence

\* C8: the constructor throws, and leaves no generator that generate() can be
\* called on, whenever datacenterId or workerId is negative or above 31, and
\* succeeds for every pair of integers in 0..31.
C8_ConstructorRange ==
  \A g \in Generators :
    constructed[g] # "no" =>
      LET dc == ctorArgs[g][1]
          w == ctorArgs[g][2]
      IN IF dc < 0 \/ dc > 31 \/ w < 0 \/ w > 31
           THEN /\ constructed[g] = "error"
                /\ ctorError[g] # ""
                /\ result[g].status = "none"
                /\ ~Returned(g)
           ELSE /\ constructed[g] = "ok"
                /\ ctorError[g] = ""
                /\ datacenterId[g] = dc
                /\ workerId[g] = w

C8_Witness ==
  /\ constructed[1] = "error"
  /\ ctorArgs[1] = <<31, 32>>

(***************************************************************************)
(* Claims about the retry loop, checked under SpecSlug.                     *)
(***************************************************************************)
LoopOver(p) == op[p].pc \notin {"idle", "find", "findCategory", "crawl", "check", "checked"}

FourTrueThenFalse(p) ==
  /\ Len(op[p].checks) >= 5
  /\ \A i \in 1..4 : op[p].checks[i].answer
  /\ ~op[p].checks[5].answer

FiveTrue(p) ==
  /\ Len(op[p].checks) >= 5
  /\ \A i \in 1..5 : op[p].checks[i].answer

ExhaustionErrors == {"Failed to generate unique slug. Please try a different title.", "Failed to generate unique slug. Please try again."}

\* C10: in the retry loop of initializeCrawl, modifyCrawl and updateCategory,
\* once the loop is over: if the existence checks answered true, true, true,
\* true, false, the operation went on with the fifth candidate (no sixth
\* check, no exhaustion error, and whatever it hands to the store carries
\* that candidate); if the first five checks answered true, the operation
\* failed with the 'Failed to generate unique slug' error of its kind.  The
\* case is the one in which the store answers every check; a check that
\* raises instead of answering is the subject of C15.
C10_FifthCandidateOrExhaustion ==
  \A p \in DOMAIN op :
    LoopOver(p) =>
      /\ FourTrueThenFalse(p) =>
           /\ Len(op[p].checks) = 5
           /\ op[p].slug = op[p].checks[5].slug
           /\ op[p].slugAttempts = 4
           /\ op[p].error \notin ExhaustionErrors
           /\ \A w \in op[p].written : w.slug = op[p].checks[5].slug
           /\ (op[p].kind = "updateCategory" \/ isValidCrawlLink(op[p].data.link_type, op[p].data.crawl_link))
                => op[p].written # {}
      /\ FiveTrue(p) /\ op[p].storeError = "" =>
           /\ op[p].outcome = "failed"
           /\ op[p].error = (IF op[p].kind = "updateCategory" THEN "Failed to generate unique slug. Please try again."
                             ELSE "Failed to generate unique slug. Please try a different title.")
           /\ op[p].written = {}

\* An updateCategory whose checks answered true four times and then false
\* has written the fifth candidate, and an initializeCrawl has done the same.
C10_Witness ==
  \E p \in DOMAIN op :
    /\ op[p].kind = "updateCategory"
    /\ op[p].outcome = "ok"
    /\ FourTrueThenFalse(p)
    /\ \E c \in cats : c.id = op[p].categoryId /\ c.slug = op[p].checks[5].slug

C10_WitnessCreate ==
  \E p \in DOMAIN op :
    /\ op[p].kind = "initializeCrawl"
    /\ op[p].outcome = "ok"
    /\ FourTrueThenFalse(p)

C10_WitnessExhausted ==
  \E p \in DOMAIN op :
    /\ op[p].kind = "initializeCrawl"
    /\ FiveTrue(p)
    /\ op[p].error = "Failed to generate unique slug. Please try a different title."

\* Candidates generated so far by the slug resolution p is in: the first one
\* and one for each pass through the loop body.
CandidatesGenerated(p) == IF op[p].slug = <<>> THEN 0 ELSE op[p].slugAttempts + 1

\* C11: one slug resolution issues at most 5 existence checks to the store
\* and generates at most 5 candidates, whatever the store answers.
C11_AtMostFiveChecks ==
  \A p \in DOMAIN op :
    /\ Len(op[p].checks) <= 5
    /\ CandidatesGenerated(p) <= 5

\* C12: when a slug is resolved for an entity being renamed (modifyCrawl with
\* its siteId, updateCategory with its categoryId), the existence check
\* answers true exactly when a record in scope other than the entity holds
\* the candidate: the entity's own record holding it is no collision, any
\* other holder is.  A resolution whose first candidate is the slug the
\* entity already holds ends after that one check, with that candidate.
C12_OwnRecordIsNoCollision ==
  /\ \A r \in sites : \A id \in {x.id : x \in sites} \cup SiteIds :
       slugExistsExcludingId(r.slug, id) = (\E x \in sites : x.slug = r.slug /\ x.id # id)
  /\ \A c \in cats : \A id \in {x.id : x \in cats} \cup CategoryIds :
       slugExistsForSiteExcludingId(c.site_id, c.slug, id)
         = (\E x \in cats : x.site_id = c.site_id /\ x.slug = c.slug /\ x.id # id)
  /\ \A p \in DOMAIN op :
       /\ op[p].pc = "checked" /\ op[p].kind = "modifyCrawl" =>
            op[p].answer = (\E r \in sites : r.slug = op[p].slug /\ r.id # op[p].siteId)
       /\ op[p].pc = "checked" /\ op[p].kind = "updateCategory" =>
            op[p].answer = (\E c \in cats : /\ c.site_id = op[p].siteId
                                           /\ c.slug = op[p].slug
                                           /\ c.id # op[p].categoryId)
       /\ LoopOver(p) /\ op[p].kind \in {"modifyCrawl", "updateCategory"}
            /\ Len(op[p].checks) >= 1 /\ ~op[p].checks[1].answer =>
              /\ Len(op[p].checks) = 1
              /\ op[p].slug = op[p].checks[1].slug
              /\ op[p].error \notin ExhaustionErrors

\* An updateCategory whose first candidate is the slug its own category
\* holds: the check has answered false.
C12_Witness ==
  \E p \in DOMAIN op :
    /\ op[p].kind = "updateCategory"
    /\ op[p].pc = "checked"
    /\ Len(op[p].checks) = 1
    /\ \E c \in cats : c.id = op[p].categoryId /\ c.slug = op[p].slug
    /\ ~op[p].answer

\* C13: when slug resolution is exhausted in initializeCrawl, modifyCrawl or
\* updateCategory (five checks answered true), the operation fails and the
\* store is exactly as it was before the call: nothing inserted, nothing
\* updated.
C13_ExhaustionWritesNothing ==
  \A p \in DOMAIN op :
    LoopOver(p) /\ (FiveTrue(p) \/ op[p].error \in ExhaustionErrors) =>
      /\ op[p].outcome = "failed"
      /\ op[p].written = {}
      /\ sites = op[p].before.sites
      /\ cats = op[p].before.cats

\* An updateCategory that ran out of candidates on a store with categories.
C13_Witness ==
  \E p \in DOMAIN op :
    /\ op[p].kind = "updateCategory"
    /\ op[p].error = "Failed to generate unique slug. Please try again."
    /\ Len(op[p].checks) = 6
    /\ cats # {}
    /\ cats = op[p].before.cats

\* C14: every slug-exhaustion failure reaches the caller as an error: an
\* operation in which the retry budget was exhausted for a title, one title
\* among several in crawlCategory included, ends as a failure and never as a
\* success that omits the title.
C14_ExhaustionIsAnError ==
  \A p \in DOMAIN op :
    op[p].pc = "done" /\ (op[p].skipped # <<>> \/ FiveTrue(p)) =>
      op[p].outcome = "failed"

\* C15: if an existence check raises a store error during slug resolution,
\* the operation fails with that same error; the loop does not count it as a
\* collision (no candidate is generated for it), makes no further check, and
\* nothing is written to the store.
C15_StoreErrorPropagates ==
  \A p \in DOMAIN op :
    op[p].storeError # "" =>
      /\ op[p].pc = "done"
      /\ op[p].outcome = "failed"
      /\ op[p].error = op[p].storeError
      /\ op[p].slugAttempts = Len(op[p].checks)
      /\ \A i \in 1..Len(op[p].checks) : op[p].checks[i].answer
      /\ op[p].written = {}
      /\ sites = op[p].before.sites
      /\ cats = op[p].before.cats

\* An initializeCrawl whose third existence check failed in the store.
C15_Witness ==
  \E p \in DOMAIN op :
    /\ op[p].kind = "initializeCrawl"
    /\ op[p].storeError \in StoreErrors
    /\ Len(op[p].checks) = 2
    /\ sites # {}

DuplicateSlugErrors == {"Slug already exists. Please use a different title.", "Category slug already exists for this site. Please try again.", "One or more category slugs already exist for this site. Please try again."}

\* C16: a write the store rejects because its slug duplicates an existing one
\* is reported with an error that is neither the slug-exhaustion error nor
\* the error reported for a write rejected because its identifier duplicates
\* an existing primary key.
C16_DuplicateSlugIsDistinct ==
  \A p \in DOMAIN op :
    /\ op[p].rejected = "slug" =>
         op[p].error \in DuplicateSlugErrors /\ op[p].error \notin ExhaustionErrors
    /\ op[p].rejected = "id" => op[p].error \notin DuplicateSlugErrors

(***************************************************************************)
(* Claims about concurrent requests, checked under SpecRace.                *)
(***************************************************************************)
UniqueSlugs ==
  /\ \A r \in sites : \A x \in sites : (r.id = x.id \/ r.slug = x.slug) => r = x
  /\ \A c \in cats : \A x \in cats :
       (c.id = x.id \/ (c.site_id = x.site_id /\ c.slug = x.slug)) => c = x

\* A step in which the store rejects the write of a request leaves the store
\* as it is and ends the request with an error.
RejectedWriteHasNoEffect ==
  \A p \in DOMAIN op :
    op[p].rejected = "" /\ op'[p].rejected # "" =>
      /\ sites' = sites
      /\ cats' = cats
      /\ op'[p].outcome = "failed"
      /\ op'[p].error \in DuplicateSlugErrors

\* C17: in every reachable state of the store, under every interleaving of
\* concurrent initializeCrawl, modifyCrawl, crawlCategory and updateCategory
\* calls, no two crawl_site records share a slug and no two categories of one
\* site share a slug; a writer that loses the race gets an error and its
\* write has no effect.
C17_SlugsStayUnique == []UniqueSlugs /\ [][RejectedWriteHasNoEffect]_vars

\* Two initializeCrawl calls derived the same candidate in one millisecond,
\* both passed the check, one wrote it and the other was rejected.
C17_Witness ==
  /\ op[1].kind = "initializeCrawl" /\ op[2].kind = "initializeCrawl"
  /\ op[1].slug = op[2].slug
  /\ ~op[1].answer /\ ~op[2].answer
  /\ op[1].rejected = "slug"
  /\ op[2].outcome = "ok"
  /\ \E r \in sites : r.slug = op[2].slug /\ r.id = op[2].taskId

(***************************************************************************)
(* The shape of a candidate.                                                *)
(***************************************************************************)
\* The position of the last '-' of s, 0 when there is none.
LastHyphen(s) ==
  IF \E i \in DOMAIN s : s[i] = "-"
    THEN CHOOSE i \in DOMAIN s : s[i] = "-" /\ \A j \in DOMAIN s : s[j] = "-" => j <= i
    ELSE 0

\* The number a base-36 numeral denotes.
RECURSIVE Base36Value(_)
Base36Value(s) ==
  IF s = <<>> THEN 0
  ELSE 36 * Base36Value(SubSeq(s, 1, Len(s) - 1))
         + (CHOOSE d \in 0..35 : Base36Chars[d + 1] = s[Len(s)])

IsBase36Of(s, n) ==
  /\ s # <<>>
  /\ \A i \in DOMAIN s : s[i] \in Range(Base36Chars)
  /\ Len(s) > 1 => s[1] # "0"
  /\ Base36Value(s) = n

\* The letters and digits of s, in order, letters in lowercase.
RECURSIVE Content(_)
Content(s) ==
  IF s = <<>> THEN <<>>
  ELSE (IF IsAlnum(Head(s)) THEN <<ToLower(Head(s))>> ELSE <<>>) \o Content(Tail(s))

IsBaseOf(b, title) ==
  /\ \A i \in DOMAIN b : b[i] \in Range(LowerChars) \cup Range(DigitChars) \cup {"-"}
  /\ b # <<>> => b[1] # "-" /\ b[Len(b)] # "-"
  /\ \A i \in 1..(Len(b) - 1) : ~(b[i] = "-" /\ b[i + 1] = "-")
  /\ Content(b) = Content(title)

\* C18: every candidate generateUniqueSlug derives is the base transform of
\* the title (lowercase letters and digits, words joined by single '-', no
\* '-' at either end), then '-', then the clock reading in base 36; the
\* candidate of 'Example Site' begins with 'example-site-'.
C18_CandidateShape ==
  \A p \in DOMAIN op :
    op[p].kind = "generateUniqueSlug" /\ op[p].pc = "done" =>
      LET c == op[p].slug
          k == LastHyphen(c)
      IN /\ k > 0
         /\ IsBase36Of(SubSeq(c, k + 1, Len(c)), now[1])
         /\ IsBaseOf(SubSeq(c, 1, k - 1), op[p].title)
         /\ op[p].title = ExampleSite =>
              /\ Len(c) > 13
              /\ SubSeq(c, 1, 13) = <<"e", "x", "a", "m", "p", "l", "e", "-",
                                      "s", "i", "t", "e", "-">>

\* 'Example Site' at reading 1296 gives 'example-site-100'.
C18_Witness ==
  /\ op[1].kind = "generateUniqueSlug" /\ op[1].pc = "done"
  /\ op[1].title = ExampleSite
  /\ now[1] = 1296
  /\ op[1].slug = <<"e", "x", "a", "m", "p", "l", "e", "-", "s", "i", "t", "e", "-",
                    "1", "0", "0">>

\* C19: a modifyCrawl call on an existing task with a valid title, alone or
\* with the other fields, succeeds, and the task then carries the slug newly
\* generated from that title.  (Slug exhaustion, a rejected write and a store
\* error are the failures other claims allow; an invalid merged link is set
\* aside too.)
C19_TitleModifySucceeds ==
  \A p \in DOMAIN op :
    /\ op[p].kind = "modifyCrawl" /\ op[p].pc = "done"
    /\ op[p].existing # {}
    /\ "title" \in op[p].data.provided /\ Len(Trim(op[p].data.title)) > 0
    /\ "crawl_link" \in op[p].data.provided =>
         isValidCrawlLink(op[p].data.link_type, op[p].data.crawl_link)
    /\ op[p].error \notin ExhaustionErrors \cup DuplicateSlugErrors
    /\ op[p].storeError = ""
    => /\ op[p].outcome = "ok"
       /\ \E r \in sites :
            /\ r.id = op[p].siteId
            /\ r.slug = op[p].slug
            /\ r.title = Trim(op[p].data.title)
            /\ IsBaseOf(SubSeq(r.slug, 1, LastHyphen(r.slug) - 1), op[p].data.title)

\* C20: after a successful modifyCrawl the record with id siteId has status
\* INIT and null categories and sub_categories, whatever they were before;
\* no record was created or removed, and no other record or category changed.
C20_ModifyResets ==
  \A p \in DOMAIN op :
    op[p].kind = "modifyCrawl" /\ op[p].pc = "done" /\ op[p].outcome = "ok" =>
      /\ \E r \in sites :
           /\ r.id = op[p].siteId
           /\ r.status = "INIT"
           /\ r.categories = Null
           /\ r.sub_categories = Null
      /\ {r.id : r \in sites} = {r.id : r \in op[p].before.sites}
      /\ Cardinality(sites) = Cardinality(op[p].before.sites)
      /\ \A r \in sites : r.id # op[p].siteId => r \in op[p].before.sites
      /\ cats = op[p].before.cats

\* A crawled site (DONE, JSON columns filled) was modified next to another
\* stored site.
C20_Witness ==
  /\ op[1].kind = "modifyCrawl" /\ op[1].pc = "done" /\ op[1].outcome = "ok"
  /\ \E b \in op[1].before.sites :
       /\ b.id = op[1].siteId
       /\ b.status = "DONE"
       /\ b.categories # Null
       /\ b.sub_categories # Null
  /\ \E r \in sites : r.id = op[1].siteId /\ r.status = "INIT" /\ r.link_type = "API"
  /\ \E r \in sites : r.id # op[1].siteId

(***************************************************************************)
(* Claims about purgeCrawl and the requests around it.                      *)
(***************************************************************************)
\* A purgeCrawl or modifyCrawl whose findById has returned no record.
FoundNothing(o) ==
  /\ o.kind \in {"purgeCrawl", "modifyCrawl"}
  /\ o.pc # "find"
  /\ o.existing = {}

NotFoundFails ==
  \A p \in DOMAIN op :
    FoundNothing(op[p]) =>
      /\ op[p].pc = "done"
      /\ op[p].outcome = "failed"
      /\ op[p].error = "Crawl task not found."
      /\ op[p].written = {}

NotFoundWritesNothing ==
  \A p \in DOMAIN op :
    ~FoundNothing(op[p]) /\ FoundNothing(op'[p]) => sites' = sites /\ cats' = cats

\* C21: purgeCrawl and modifyCrawl on an id no crawl_site record has fail
\* with 'Crawl task not found.' and leave the store unchanged.
C21_NotFound == []NotFoundFails /\ [][NotFoundWritesNothing]_vars

\* Both requests, a purge and a modify of the absent id, got the error.
C21_Witness ==
  /\ op[1].kind = "purgeCrawl" /\ op[1].siteId = AbsentSite
  /\ op[1].error = "Crawl task not found."
  /\ op[2].kind = "modifyCrawl" /\ op[2].siteId = AbsentSite
  /\ op[2].error = "Crawl task not found."
  /\ sites = {RaceSite}

\* A purgeCrawl of id has succeeded.
Purged(id) ==
  \E p \in DOMAIN op :
    op[p].kind = "purgeCrawl" /\ op[p].outcome = "ok" /\ op[p].siteId = id

\* C22: once purgeCrawl(siteId) has succeeded, no crawl_site record with that
\* id exists in any later state, whatever requests were in flight or follow:
\* in every state in which a purge of an id stands as succeeded, the store
\* holds no record with that id.
C22_PurgedStaysGone ==
  Purged(RaceSite.id) => findById(RaceSite.id) = {}

\* A modifyCrawl read the record, the purge then removed it, and the UPDATE
\* of the modifyCrawl found no row.
C22_Witness ==
  /\ Purged(RaceSite.id)
  /\ \E p \in DOMAIN op :
       /\ op[p].kind = "modifyCrawl" /\ op[p].siteId = RaceSite.id
       /\ op[p].existing = {RaceSite}
       /\ op[p].written # {}
       /\ op[p].error = "Failed to retrieve updated record"
  /\ sites = {}

\* C23: in every reachable state each category's site_id is the id of an
\* existing crawl_site record; a crawlCategory whose site was purged between
\* its site query and its batch insert persists no category.
C23_CategoriesHaveSites ==
  /\ \A c \in cats : findById(c.site_id) # {}
  /\ \A p \in DOMAIN op :
       op[p].kind = "crawlCategory" /\ op[p].error = "Cannot add or update a child row: a foreign key constraint fails" =>
         \A i \in 1..Len(op[p].batch) : findCategoryById(op[p].batch[i].id) = {}

\* The site, with its two categories, was purged after a crawlCategory had
\* found it; the batch insert of that crawlCategory was refused.
C23_Witness ==
  /\ Purged(RaceSite.id)
  /\ \E p \in DOMAIN op :
       /\ op[p].kind = "crawlCategory"
       /\ op[p].existing = {RaceSite}
       /\ Len(op[p].batch) = 1
       /\ op[p].error = "Cannot add or update a child row: a foreign key constraint fails"
  /\ cats = {}
  /\ sites = {}

\* C24: in every retry loop, the candidate submitted to the existence check
\* that follows a colliding answer differs from the candidate that collided.
C24_NextCandidateDiffers ==
  \A p \in DOMAIN op :
    \A i \in 1..(Len(op[p].checks) - 1) :
      op[p].checks[i].answer => op[p].checks[i + 1].slug # op[p].checks[i].slug

\* The UPDATE of a modifyCrawl is applied to an existing row on this step.
ModifyWrites(p) ==
  /\ op[p].kind = "modifyCrawl"
  /\ op[p].pc = "write"
  /\ op'[p].pc = "fetch"
  /\ findById(op[p].siteId) # {}

\* C25: a modifyCrawl writes only the fields it provides (and the reset of
\* status and categories): every other field has after the write the value
\* it had in the store at the moment of the write, also when another
\* modifyCrawl changed it after this call had read the record.
C25_UnprovidedFieldsKept ==
  [][\A p \in DOMAIN op :
       ModifyWrites(p) =>
         \A old \in findById(op[p].siteId) :
           \A new \in {r \in sites' : r.id = old.id} :
             /\ "link_type" \notin op[p].data.provided => new.link_type = old.link_type
             /\ "crawl_link" \notin op[p].data.provided => new.crawl_link = old.crawl_link
             /\ "title" \notin op[p].data.provided =>
                  new.title = old.title /\ new.slug = old.slug]_vars

\* C26: every generate() call eventually returns or fails, provided the
\* clock comes to read a millisecond after lastTimestamp: a call is pending
\* only inside waitNextMillis, and that loop ends, the call returning, once
\* the clock reads such a millisecond.
C26_GenerateTerminates ==
  /\ []<>(now[1] > lastTimestamp[1]) => (pc[1] = "spin" ~> pc[1] = "idle")
  /\ [](pc[1] \in {"idle", "spin"})
  /\ [][pc[1] = "spin" /\ pc'[1] = "idle" =>
         /\ now[1] > lastTimestamp[1]
         /\ result'[1].status = "returned"]_vars

\* A call was held in waitNextMillis and has returned in the next
\* millisecond.
C26_Witness ==
  /\ pc[1] = "idle"
  /\ result[1].status = "returned"
  /\ Len(issued) = 2
  /\ issued[1].sequence = 4095
  /\ issued[2].sequence = 0
  /\ issued[2].timestamp = issued[1].timestamp + 1

\* The last existence check of o was on slug and answered false.
LastCheckFree(o, slug) ==
  /\ o.checks # <<>>
  /\ o.checks[Len(o.checks)].slug = slug
  /\ ~o.checks[Len(o.checks)].answer
  /\ o.storeError = ""

\* The operation of p hands its rows to the store on this step: the row of
\* the INSERT or of the UPDATE, or the rows of the batch INSERT.
SubmitsRows(p) ==
  /\ op'[p].kind \in {"initializeCrawl", "modifyCrawl", "crawlCategory", "updateCategory"}
  /\ op[p].pc # "write" /\ op'[p].pc = "write"

ResolvesSlug(p) ==
  \/ /\ op'[p].kind \in {"initializeCrawl", "updateCategory"}
     /\ op[p].pc # "write" /\ op'[p].pc = "write"
  \/ /\ op'[p].kind = "crawlCategory"
     /\ Len(op'[p].batch) = Len(op[p].batch) + 1

ResolvedSlug(p) ==
  IF op'[p].kind = "crawlCategory" THEN op'[p].batch[Len(op'[p].batch)].slug
  ELSE (CHOOSE r \in op'[p].written : TRUE).slug

\* modifyCrawl hands its row to the store having made no existence check:
\* the request has no title and the row has the slug of the record read at
\* findById.
WritesStoredSlug(o) ==
  /\ "title" \notin o.data.provided
  /\ o.checks = <<>>
  /\ \A r \in o.written : \E existingTask \in o.existing : r.slug = existingTask.slug

C28_FailureKeepsState ==
  [][/\ GenGenerate /\ result'[1].status = "threw" =>
          /\ lastTimestamp'[1] = lastTimestamp[1]
          /\ sequence'[1] = sequence[1]
     /\ result[1].status = "threw" /\ result'[1].status = "returned"
          /\ maxBefore'[1].any =>
          /\ IdValue(lastId'[1]) > maxBefore'[1].max
          /\ lastTimestamp'[1] >= lastTimestamp[1]]_vars

\* A call failed after three identifiers of one millisecond had been issued,
\* the clock reading the millisecond before.
C28_Witness ==
  /\ result[1].status = "threw"
  /\ now[1] = lastTimestamp[1] - 1
  /\ lastId[1] # <<>>
  /\ sequence[1] = 2
  /\ SequenceField(IdValue(lastId[1])) = 2

\* C29: within one crawlCategory call the slugs of the categories collected
\* for the batch insert are pairwise distinct.
C29_BatchSlugsDistinct ==
  \A p \in DOMAIN op :
    op[p].kind = "crawlCategory" =>
      \A i, j \in 1..Len(op[p].batch) :
        i # j => op[p].batch[i].slug # op[p].batch[j].slug

\* C30: a slug resolution fails with the exhaustion error only if every
\* existence check it performed answered true.
C30_ExhaustionOnlyAfterAllTrue ==
  \A p \in DOMAIN op :
    op[p].outcome = "failed" /\ op[p].error \in ExhaustionErrors =>
      \A i \in 1..Len(op[p].checks) : op[p].checks[i].answer

================================================================================
